---- MODULE Spec2Model ----
(***************************************************************************)
(* Course_recommendation: the course-skill mapping run                     *)
(* (services/data_factory: scripts/map_course_skills.py driving            *)
(* CourseSkillMappingPipeline and RerankerService) and the learning-path   *)
(* builder (src/service_api/services/course_recommendation.py).            *)
(*                                                                         *)
(* Conventions.  Python lists are sequences and are 1-based here: taxonomy *)
(* row i of the code (0-based) is row i+1.  Cosine similarities are kept   *)
(* in fixed point: a unit vector is held in units of 1/5 and a similarity  *)
(* in units of 1/25, so 25 is cosine 1.0 and 15 is cosine 0.6.  None is    *)
(* the empty tuple NULL; an Optional[float] that is set is Some(x).        *)
(***************************************************************************)
EXTENDS Integers, Sequences, FiniteSets, TLC

\* ---------------------------------------------------------------- bounds
MaxQueries == 2
MaxTaxonomy == 2
MaxCourses == 3
MaxScores == 4
MaxTopK == 3
MaxCandidates == 3
MaxRows == 4
MaxInputRows == 3
MaxRecords == 2

NULL == <<>>
Some(x) == <<x>>

Min(a, b) == IF a < b THEN a ELSE b
Max(a, b) == IF a > b THEN a ELSE b

\* ------------------------------------------------------- the input space
\* Course skill payloads (CourseSkill.to_embedding_payload) a catalog may hold.
Payloads == {"p1", "p2", "p3"}
\* Rows the taxonomy embedding matrix may hold.
TaxonomyVectors == {<<5, 0>>, <<6, 8>>, <<0, 5>>}
\* Output dimensions the loaded encoder may have.
EncoderDims == {2, 3}
\* mapping.min_similarity, in units of 1/25.
MinSimilarityValues == {10, 20}
\* mapping.rerank_top_k.
RerankTopKValues == {0, 2}
\* Logits the cross-encoder may return for a pair.
RerankScores == {0, 1}

\* SentenceTransformer.encode for one payload under an encoder of dimension
\* dim: a fixed embedding per payload, zero-padded to the encoder's dimension.
BaseEmbedding(p) ==
    CASE p = "p1" -> <<5, 0>>
      [] p = "p2" -> <<6, 8>>
      [] OTHER    -> <<0, 0>>

EmbedPayload(p, dim) ==
    [i \in 1..dim |-> IF i <= Len(BaseEmbedding(p)) THEN BaseEmbedding(p)[i] ELSE 0]

\* EmbeddingService.encode: one row per text, in order.
Encode(payloads, dim) == [i \in 1..Len(payloads) |-> EmbedPayload(payloads[i], dim)]

\* ------------------------------------------------------ vector arithmetic
RECURSIVE DotUpTo(_, _, _)
DotUpTo(u, v, n) == IF n = 0 THEN 0 ELSE u[n] * v[n] + DotUpTo(u, v, n - 1)

Dot(u, v) == DotUpTo(u, v, Len(u))

\* np.linalg.norm of one row (the rows of the input space have integer norms).
Norm(v) == CHOOSE r \in 0..Dot(v, v) : r * r = Dot(v, v)

\* _normalize_vectors: an empty matrix is returned as is; a zero norm is
\* replaced by 1.0, so a zero row stays zero.  Result in units of 1/5.
NormalizeRow(v) ==
    LET n == IF Norm(v) = 0 THEN 1 ELSE Norm(v)
    IN  [i \in 1..Len(v) |-> (v[i] * 5) \div n]

\* Every row normalised by the norm of the first row.
_normalize_vectors_ByFirstNorm(vectors) ==
    IF Len(vectors) = 0 THEN vectors
    ELSE LET n == IF Norm(vectors[1]) = 0 THEN 1 ELSE Norm(vectors[1])
         IN  [i \in 1..Len(vectors) |->
                 [j \in 1..Len(vectors[i]) |-> (vectors[i][j] * 5) \div n]]

_normalize_vectors(vectors) ==
    IF Len(vectors) = 0 THEN vectors
    ELSE [i \in 1..Len(vectors) |-> NormalizeRow(vectors[i])]

\* The number of columns of the taxonomy matrix on disk.
EscoDim == Len(CHOOSE v \in TaxonomyVectors : TRUE)

\* normalized_course @ normalized_esco.T raises ValueError when the inner
\* dimensions differ.
MatMulRaises(course_embeddings) ==
    /\ Len(course_embeddings) > 0
    /\ Len(course_embeddings[1]) # EscoDim

\* normalized_course @ normalized_esco.T, in units of 1/25.
SimilarityMatrix(course_embeddings, esco_embeddings) ==
    LET nc == _normalize_vectors(course_embeddings)
        ne == _normalize_vectors(esco_embeddings)
    IN  [q \in 1..Len(nc) |-> [t \in 1..Len(ne) |-> Dot(nc[q], ne[t])]]

\* ------------------------------------------------------------ _map_skills
\* np.argmax: the first index holding the maximum.
ArgMax(scores) ==
    CHOOSE i \in 1..Len(scores) :
        /\ \A j \in 1..Len(scores) : scores[j] <= scores[i]
        /\ \A j \in 1..(i - 1) : scores[j] < scores[i]

\* np.argpartition alone, without the np.argsort of the selected scores.
TopKOutcomes_PartitionOnly(scores, k) ==
    LET n  == Len(scores)
        kk == Min(k, n)
    IN  IF n = 0 THEN {<<>>}
        ELSE {s \in [1..kk -> 1..n] :
                /\ \A i, j \in 1..kk : i # j => s[i] # s[j]
                /\ \A i \in 1..kk : \A t \in 1..n :
                     (\A j \in 1..kk : s[j] # t) => scores[s[i]] >= scores[t]}

\* _top_k_indices.  For k = 1 it is argmax.  For k > 1 it is
\* np.argpartition followed by np.argsort (quicksort) of the selected
\* scores: numpy fixes neither which of several equal scores is selected at
\* the cut-off nor the order of equal scores, so every arrangement that is
\* descending by score and selects no score below an unselected one is a
\* possible outcome.
TopKOutcomes(scores, k) ==
    LET n  == Len(scores)
        kk == Min(k, n)
    IN  IF n = 0 THEN {<<>>}
        ELSE IF kk = 1 THEN {<<ArgMax(scores)>>}
        ELSE {s \in [1..kk -> 1..n] :
                /\ \A i, j \in 1..kk : i # j => s[i] # s[j]
                /\ \A i, j \in 1..kk : i < j => scores[s[i]] >= scores[s[j]]
                /\ \A i \in 1..kk : \A t \in 1..n :
                     (\A j \in 1..kk : s[j] # t) => scores[s[i]] >= scores[t]}

\* The candidate dicts built from the selected indices (lines 138-148); the
\* "text" and "metadata" entries are functions of "index".
Candidates(similarities, candidate_indices) ==
    [i \in 1..Len(candidate_indices) |->
        [index |-> candidate_indices[i],
         similarity |-> similarities[candidate_indices[i]]]]

\* A descending sort that reverses the order of equal keys.
SortByRerankScoreDesc_TiesReversed(items) ==
    LET rank(i) == 1 + Cardinality({j \in 1..Len(items) :
                        \/ items[j].rerank_score > items[i].rerank_score
                        \/ /\ items[j].rerank_score = items[i].rerank_score
                           /\ j > i})
    IN  [r \in 1..Len(items) |-> items[CHOOSE i \in 1..Len(items) : rank(i) = r]]

\* list.sort(key=rerank_score, reverse=True): a stable sort, equal keys keep
\* their order.  rank(i) counts the elements that come before element i.
SortByRerankScoreDesc(items) ==
    LET rank(i) == 1 + Cardinality({j \in 1..Len(items) :
                        \/ items[j].rerank_score > items[i].rerank_score
                        \/ /\ items[j].rerank_score = items[i].rerank_score
                           /\ j < i})
    IN  [r \in 1..Len(items) |-> items[CHOOSE i \in 1..Len(items) : rank(i) = r]]

\* RerankerService.rerank after the scoring loop: a copy of each candidate
\* enriched with its score, then sorted; the input list is left alone.
Rerank(candidates, scores) ==
    IF Len(candidates) = 0 THEN <<>>
    ELSE SortByRerankScoreDesc(
            [i \in 1..Min(Len(candidates), Len(scores)) |->
                [index |-> candidates[i].index,
                 similarity |-> candidates[i].similarity,
                 rerank_score |-> scores[i]]])

\* The head of the raw list, whatever the reranker returned.
Chosen_IgnoresRerank(reranked_candidates, candidates) == candidates[1]

\* chosen = (reranked_candidates or candidates)[0]
Chosen(reranked_candidates, candidates) ==
    IF Len(reranked_candidates) > 0
    THEN reranked_candidates[1]
    ELSE candidates[1]

\* esco_metadata[i]: the taxonomy record of row i.
EscoMetadata(n) ==
    [i \in 1..n |-> [skill_id |-> <<"skill", i>>,
                     preferred_label |-> <<"label", i>>,
                     description |-> <<"description", i>>]]

\* A MappedCourseSkill.
Mapped(skill, id, label, description, score) ==
    [original |-> skill, esco_skill_id |-> id, esco_preferred_label |-> label,
     esco_description |-> description, similarity_score |-> score]

\* The comparison the wrong way round.
BelowThreshold_Inverted(best_score, threshold) == best_score > threshold

\* best_score < threshold
BelowThreshold(best_score, threshold) == best_score < threshold

\* A rejected candidate's similarity dropped from the record.
Decide_DropsScore(skill, chosen, metadata, threshold) ==
    IF chosen.similarity < threshold
    THEN Mapped(skill, NULL, NULL, NULL, NULL)
    ELSE Mapped(skill,
                metadata[chosen.index].skill_id,
                metadata[chosen.index].preferred_label,
                metadata[chosen.index].description,
                Some(chosen.similarity))

\* Lines 157-174: the record appended for a query whose candidate list is
\* not empty.
Decide(skill, chosen, metadata, threshold) ==
    IF BelowThreshold(chosen.similarity, threshold)
    THEN Mapped(skill, NULL, NULL, NULL, Some(chosen.similarity))
    ELSE Mapped(skill,
                metadata[chosen.index].skill_id,
                metadata[chosen.index].preferred_label,
                metadata[chosen.index].description,
                Some(chosen.similarity))

\* MappedCourseSkill.as_record: the original's fields and the four mapping
\* fields, None kept as null.
as_record(item) ==
    [payload |-> item.original,
     esco_skill_id |-> item.esco_skill_id,
     esco_preferred_label |-> item.esco_preferred_label,
     esco_description |-> item.esco_description,
     similarity_score |-> item.similarity_score]

\* ------------------------------------------------------------------ state
VARIABLES
    pc,                  \* position of map_course_skills.main
    failure,             \* the exception that ended the run, or "None"
    esco_artifacts,      \* which of skills_metadata.jsonl, skills_embeddings.npy exist
    settings,            \* load_config(): mapping, reranker and mysql settings
    encoder_loaded,      \* the SentenceTransformer is resident
    encoder_dim,         \* its output dimension
    reranker,            \* pipeline._reranker: "None" or "RerankerService"
    course_skills,       \* List[CourseSkill], by payload
    course_embeddings,
    esco_metadata,
    esco_embeddings,
    similarity_matrix,
    idx,                 \* the loop index of _map_skills
    candidates,
    reranked_candidates,
    results,             \* List[MappedCourseSkill]
    rerank_calls,        \* how many rerank calls have returned
    mapping_file,        \* course_skill_mappings.jsonl: whether it exists, its records
    mysql_rows,          \* the rows of the mapping table
    courses,             \* recommend_courses: the course dicts
    max_courses,
    graph,
    in_degree,
    queue,
    sorted_order,
    level,
    level_size,          \* iterations left of "for _ in range(level_size)"
    remaining,
    final_path,
    rpc                  \* position of recommend_courses

VARIABLES
    tk_scores,           \* _top_k_indices: the score vector
    tk_k,                \* its parameter k
    tk_indices,          \* the returned indices
    tk_pc,               \* position of _top_k_indices
    rr_candidates,       \* RerankerService.rerank: the caller's candidate list
    rr_batch_size,       \* self._config.batch_size
    rr_scorer,           \* the cross-encoder's score of (query, text), by text
    rr_pairs,
    rr_start,            \* the loop variable of the batch loop
    rr_scores,
    rr_reranked,         \* the returned list
    rr_pc,               \* position of rerank
    neo4j_graph,         \* the Neo4j database: its nodes and relationships
    st_rows,             \* rows sent to the database so far
    st_last,             \* the last call: its kind and its batch
    gb_skills_csv,       \* GraphBuildPipeline: the rows of the ESCO skills file
    gb_relation_map,     \* load_skills: the broader skills of each skill
    gb_mappings_file,    \* course_skill_mappings.jsonl: whether it exists, its records
    gb_batch_size,       \* settings.neo4j.batch_size
    gb_clear_existing,
    gb_pc,               \* position of build_graph.main / GraphBuildPipeline.run
    gb_sent,             \* rows of the current batch_merge_* call already committed
    gb_run,              \* which run of build_graph this is
    gb_attempts,         \* session.run calls made for the batch now at gb_sent
    gb_failure,          \* the exception that ended the run, if any
    gb_first             \* the graph as the completed first run left it, or NULL

VARIABLES
    lm_records,          \* load_course_mappings: the records of the mappings file
    lm_loaded,           \* what it returned, or NULL
    lm_pc,               \* position of load_course_mappings
    pe_skills,           \* SkillEmbeddingPipeline.run: the filtered skills, by id
    pe_run,              \* which run of the skill embedding pipeline this is
    pe_pc,               \* its position
    skills_metadata_jsonl,   \* the lines of the metadata file, or NULL
    skills_embeddings_npy,   \* the rows of the saved matrix, or NULL
    le_loaded,           \* what load_esco_embeddings returned, or NULL
    le_resolved,         \* a candidate index and the metadata it resolved to, or NULL
    rn_course_skills,    \* whole runs of the mapping: the catalog's skills, by payload
    rn_esco_embeddings,  \* the taxonomy matrix on disk
    rn_settings,         \* load_config()
    rn_scorer,           \* the cross-encoder, as a function of query and candidate
    rn_mapping_file,     \* course_skill_mappings.jsonl
    rn_mysql_rows,       \* the rows of the mapping table
    rn_runs,             \* how many runs have ended
    rn_last,             \* the last run: its entry point, records and persistence calls
    rn_first,            \* the file and the table as the first run left them, or NULL
    rn_permuted          \* _map_skills over a permuted list: the permutation, the results

mapVars == <<pc, failure, esco_artifacts, settings, encoder_loaded, encoder_dim, reranker,
             course_skills, course_embeddings, esco_metadata, esco_embeddings,
             similarity_matrix, idx, candidates, reranked_candidates, results,
             rerank_calls, mapping_file, mysql_rows>>

pathVars == <<courses, max_courses, graph, in_degree, queue, sorted_order,
              level, level_size, remaining, final_path, rpc>>

topkVars == <<tk_scores, tk_k, tk_indices, tk_pc>>

rerankVars == <<rr_candidates, rr_batch_size, rr_scorer, rr_pairs, rr_start,
                rr_scores, rr_reranked, rr_pc>>

\* The state of the components that are also run on their own.
storeVars == <<neo4j_graph, st_rows, st_last>>

buildVars == <<gb_skills_csv, gb_relation_map, gb_mappings_file,
               gb_batch_size, gb_clear_existing, gb_pc, gb_sent, gb_run,
               gb_attempts, gb_failure, gb_first>>

\* The state of the loaders and writers that are also run on their own.
artifactVars == <<pe_skills, pe_run, pe_pc, skills_metadata_jsonl,
                  skills_embeddings_npy, le_loaded, le_resolved>>

runVars == <<rn_course_skills, rn_esco_embeddings, rn_settings, rn_scorer,
             rn_mapping_file, rn_mysql_rows, rn_runs, rn_last, rn_first,
             rn_permuted>>

extVars == <<lm_records, lm_loaded, lm_pc, artifactVars, runVars>>

compVars == <<topkVars, rerankVars, storeVars, buildVars, extVars>>

vars == <<mapVars, pathVars, compVars>>

\* Sequences of length 0..n over S.
SeqUpTo(S, n) == UNION {[1..m -> S] : m \in 0..n}

\* ------------------------------------------- map_course_skills.main: Init
MapIdle ==
    /\ pc = "idle"
    /\ failure = "None"
    /\ esco_artifacts = [metadata |-> FALSE, embeddings |-> FALSE]
    /\ settings = [min_similarity |-> 10, rerank_top_k |-> 0,
                   reranker_enabled |-> FALSE, mysql_enabled |-> FALSE]
    /\ encoder_loaded = FALSE
    /\ encoder_dim = 0
    /\ reranker = "None"
    /\ course_skills = <<>>
    /\ course_embeddings = <<>>
    /\ esco_metadata = <<>>
    /\ esco_embeddings = <<>>
    /\ similarity_matrix = <<>>
    /\ idx = 0
    /\ candidates = <<>>
    /\ reranked_candidates = <<>>
    /\ results = <<>>
    /\ rerank_calls = 0
    /\ mapping_file = [exists |-> FALSE, records |-> <<>>]
    /\ mysql_rows = <<>>

PathIdle ==
    /\ courses = <<>>
    /\ max_courses = 0
    /\ graph = <<>>
    /\ in_degree = <<>>
    /\ queue = <<>>
    /\ sorted_order = <<>>
    /\ level = 0
    /\ level_size = 0
    /\ remaining = <<>>
    /\ final_path = <<>>
    /\ rpc = "idle"

TopKIdle ==
    /\ tk_scores = <<>>
    /\ tk_k = 1
    /\ tk_indices = <<>>
    /\ tk_pc = "idle"

RerankIdle ==
    /\ rr_candidates = <<>>
    /\ rr_batch_size = 1
    /\ rr_scorer = <<>>
    /\ rr_pairs = <<>>
    /\ rr_start = 0
    /\ rr_scores = <<>>
    /\ rr_reranked = <<>>
    /\ rr_pc = "idle"

\* No node, no relationship: a new database, or one after clear_graph.
EmptyGraph ==
    [skills |-> <<>>, courses |-> <<>>, broader |-> <<>>, teaches |-> <<>>,
     requires |-> <<>>]

\* No call yet.
NoCall == [kind |-> "none", batch |-> <<>>]

StoreIdle ==
    /\ neo4j_graph = EmptyGraph
    /\ st_rows = 0
    /\ st_last = NoCall

\* No exception has left GraphBuildPipeline.run.
NoFailure == [error |-> "None", boundary |-> NULL]

BuildIdle ==
    /\ gb_skills_csv = <<>>
    /\ gb_relation_map = <<>>
    /\ gb_mappings_file = [exists |-> FALSE, records |-> <<>>]
    /\ gb_batch_size = 1
    /\ gb_clear_existing = FALSE
    /\ gb_pc = "idle"
    /\ gb_sent = 0
    /\ gb_run = 0
    /\ gb_attempts = 0
    /\ gb_failure = NoFailure
    /\ gb_first = NULL

ExtIdle ==
    /\ lm_records = <<>>
    /\ lm_loaded = NULL
    /\ lm_pc = "idle"
    /\ pe_skills = <<>>
    /\ pe_run = 0
    /\ pe_pc = "idle"
    /\ skills_metadata_jsonl = NULL
    /\ skills_embeddings_npy = NULL
    /\ le_loaded = NULL
    /\ le_resolved = NULL
    /\ rn_course_skills = <<>>
    /\ rn_esco_embeddings = <<>>
    /\ rn_settings = NULL
    /\ rn_scorer = "flat"
    /\ rn_mapping_file = [exists |-> FALSE, records |-> <<>>]
    /\ rn_mysql_rows = <<>>
    /\ rn_runs = 0
    /\ rn_last = NULL
    /\ rn_first = NULL
    /\ rn_permuted = NULL

CompIdle == TopKIdle /\ RerankIdle /\ StoreIdle /\ BuildIdle /\ ExtIdle

\* settings = load_config()
Init ==
    /\ pc = "start"
    /\ failure = "None"
    /\ esco_artifacts \in [metadata : BOOLEAN, embeddings : BOOLEAN]
    /\ settings \in [min_similarity : MinSimilarityValues,
                     rerank_top_k : RerankTopKValues,
                     reranker_enabled : BOOLEAN,
                     mysql_enabled : BOOLEAN]
    /\ encoder_loaded = FALSE
    /\ encoder_dim = 0
    /\ reranker = "None"
    /\ course_skills = <<>>
    /\ course_embeddings = <<>>
    /\ esco_metadata = <<>>
    /\ esco_embeddings = <<>>
    /\ similarity_matrix = <<>>
    /\ idx = 0
    /\ candidates = <<>>
    /\ reranked_candidates = <<>>
    /\ results = <<>>
    /\ rerank_calls = 0
    /\ mapping_file = [exists |-> FALSE, records |-> <<>>]
    /\ mysql_rows = <<>>
    /\ PathIdle
    /\ CompIdle

\* A raised exception leaves main: the process ends.
Raise(what) ==
    /\ pc' = "aborted"
    /\ failure' = what

\* embedding_service = EmbeddingService(settings.embedding): the model loads
\* or the constructor raises.
LoadEncoder ==
    /\ pc = "start"
    /\ \/ /\ \E d \in EncoderDims : encoder_dim' = d
          /\ encoder_loaded' = TRUE
          /\ pc' = "embedding_phase"
          /\ UNCHANGED failure
       \/ /\ Raise("EncoderLoadError")
          /\ UNCHANGED <<encoder_loaded, encoder_dim>>
    /\ UNCHANGED <<settings, reranker, course_skills, course_embeddings,
                   esco_metadata, esco_embeddings, similarity_matrix, idx,
                   candidates, reranked_candidates, results, rerank_calls,
                   mapping_file, mysql_rows, pathVars, compVars,
                   esco_artifacts>>

\* Only the metadata file is looked for.
ArtifactsMissing_OnlyMetadata(artifacts) == ~artifacts.metadata

\* load_esco_embeddings, line 14: either artifact is absent.
ArtifactsMissing(artifacts) == ~artifacts.metadata \/ ~artifacts.embeddings

\* pipeline.run_embedding_phase(): load_esco_embeddings raises when an
\* artifact is absent; no course skills returns four empty values; encode
\* may raise; otherwise the embeddings and the loaded data are returned.
run_embedding_phase ==
    /\ pc = "embedding_phase"
    /\ \/ /\ ArtifactsMissing(esco_artifacts)
          /\ Raise("FileNotFoundError")
          /\ UNCHANGED <<course_skills, course_embeddings, esco_metadata,
                         esco_embeddings>>
       \/ /\ ~ArtifactsMissing(esco_artifacts)
          /\ esco_embeddings' = <<>>
          /\ esco_metadata' = <<>>
          /\ course_skills' = <<>>
          /\ course_embeddings' = <<>>
          /\ pc' = "cleanup"
          /\ UNCHANGED failure
       \/ /\ ~ArtifactsMissing(esco_artifacts)
          /\ Raise("EncodeError")
          /\ UNCHANGED <<course_skills, course_embeddings, esco_metadata,
                         esco_embeddings>>
       \/ /\ ~ArtifactsMissing(esco_artifacts)
          /\ \E esco \in SeqUpTo(TaxonomyVectors, MaxTaxonomy) :
                /\ esco_embeddings' = esco
                /\ esco_metadata' = EscoMetadata(Len(esco))
          /\ \E skills \in SeqUpTo(Payloads, MaxQueries) \ {<<>>} :
                /\ course_skills' = skills
                /\ course_embeddings' = Encode(skills, encoder_dim)
          /\ pc' = "cleanup"
          /\ UNCHANGED failure
    /\ UNCHANGED <<settings, encoder_loaded, encoder_dim, reranker,
                   similarity_matrix, idx, candidates, reranked_candidates,
                   results, rerank_calls, mapping_file, mysql_rows, pathVars, compVars,
                   esco_artifacts>>

\* The cleanup without "del embedding_service._model": the pipeline object
\* still refers to the service, so the model stays resident.
CleanupEncoder_KeepsModel ==
    /\ pc = "cleanup"
    /\ pc' = "load_reranker"
    /\ UNCHANGED <<failure, settings, encoder_loaded, encoder_dim, reranker,
                   course_skills, course_embeddings, esco_metadata,
                   esco_embeddings, similarity_matrix, idx, candidates,
                   reranked_candidates, results, rerank_calls, mapping_file,
                   mysql_rows, pathVars, compVars,
                   esco_artifacts>>

\* del embedding_service._model; del embedding_service; gc.collect();
\* torch.cuda.empty_cache()
CleanupEncoder ==
    /\ pc = "cleanup"
    /\ encoder_loaded' = FALSE
    /\ pc' = "load_reranker"
    /\ UNCHANGED <<failure, settings, encoder_dim, reranker, course_skills,
                   course_embeddings, esco_metadata, esco_embeddings,
                   similarity_matrix, idx, candidates, reranked_candidates,
                   results, rerank_calls, mapping_file, mysql_rows, pathVars, compVars,
                   esco_artifacts>>

\* reranker_service = RerankerService(settings.reranker) if enabled, else
\* None; pipeline._reranker = reranker_service
LoadReranker ==
    /\ pc = "load_reranker"
    /\ \/ /\ settings.reranker_enabled
          /\ reranker' = "RerankerService"
          /\ pc' = "mapping_phase"
          /\ UNCHANGED failure
       \/ /\ settings.reranker_enabled
          /\ Raise("RerankerLoadError")
          /\ UNCHANGED reranker
       \/ /\ ~settings.reranker_enabled
          /\ reranker' = "None"
          /\ pc' = "mapping_phase"
          /\ UNCHANGED failure
    /\ UNCHANGED <<settings, encoder_loaded, encoder_dim, course_skills,
                   course_embeddings, esco_metadata, esco_embeddings,
                   similarity_matrix, idx, candidates, reranked_candidates,
                   results, rerank_calls, mapping_file, mysql_rows, pathVars, compVars,
                   esco_artifacts>>

\* Leaving the loop after the first row.
AfterRow_LeavesEarly(next_idx) == "write"

\* After the loop body for row idx: the next row, or the end of _map_skills.
AfterRow(next_idx) == IF next_idx > Len(course_skills) THEN "write" ELSE "loop"

\* pipeline.run_mapping_phase(...) up to the loop of _map_skills: nothing to
\* map returns at once; otherwise both matrices are normalised and
\* multiplied, which raises on a dimension mismatch.
EnterMappingPhase ==
    /\ pc = "mapping_phase"
    /\ \/ /\ Len(course_skills) = 0
          /\ pc' = "done"
          /\ UNCHANGED <<failure, similarity_matrix, idx, results>>
       \/ /\ Len(course_skills) > 0
          /\ MatMulRaises(course_embeddings)
          /\ Raise("ValueError")
          /\ UNCHANGED <<similarity_matrix, idx, results>>
       \/ /\ Len(course_skills) > 0
          /\ ~MatMulRaises(course_embeddings)
          /\ similarity_matrix' = SimilarityMatrix(course_embeddings, esco_embeddings)
          /\ results' = <<>>
          /\ idx' = 1
          /\ pc' = AfterRow(1)
          /\ UNCHANGED failure
    /\ UNCHANGED <<settings, encoder_loaded, encoder_dim, reranker,
                   course_skills, course_embeddings, esco_metadata,
                   esco_embeddings, candidates, reranked_candidates,
                   rerank_calls, mapping_file, mysql_rows, pathVars, compVars,
                   esco_artifacts>>

\* Lines 131-150 for row idx: an empty similarity row appends an unmapped
\* record with no score; otherwise the top-K candidates are built and
\* reranked_candidates is reset.
SelectCandidates ==
    /\ pc = "loop"
    /\ \/ /\ Len(similarity_matrix[idx]) = 0
          /\ results' = Append(results,
                               Mapped(course_skills[idx], NULL, NULL, NULL, NULL))
          /\ idx' = idx + 1
          /\ pc' = AfterRow(idx + 1)
          /\ UNCHANGED <<candidates, reranked_candidates>>
       \/ /\ Len(similarity_matrix[idx]) > 0
          /\ \E candidate_indices \in
                 TopKOutcomes(similarity_matrix[idx], Max(1, settings.rerank_top_k)) :
                candidates' = Candidates(similarity_matrix[idx], candidate_indices)
          /\ reranked_candidates' = <<>>
          /\ pc' = IF reranker # "None" /\ Len(candidates') > 0
                   THEN "rerank" ELSE "decide"
          /\ UNCHANGED <<results, idx>>
    /\ UNCHANGED <<failure, settings, encoder_loaded, encoder_dim, reranker,
                   course_skills, course_embeddings, esco_metadata,
                   esco_embeddings, similarity_matrix, rerank_calls,
                   mapping_file, mysql_rows, pathVars, compVars,
                   esco_artifacts>>

\* self._reranker.rerank(query, candidates): the cross-encoder returns one
\* logit per (query, text) pair, or the call raises; nothing in _map_skills,
\* run_mapping_phase or main catches it.
RerankCandidates ==
    /\ pc = "rerank"
    /\ \/ /\ \E scores \in [1..Len(candidates) -> RerankScores] :
                reranked_candidates' = Rerank(candidates, scores)
          /\ rerank_calls' = rerank_calls + 1
          /\ pc' = "decide"
          /\ UNCHANGED failure
       \/ /\ Raise("ScorerError")
          /\ UNCHANGED <<reranked_candidates, rerank_calls>>
    /\ UNCHANGED <<settings, encoder_loaded, encoder_dim, reranker,
                   course_skills, course_embeddings, esco_metadata,
                   esco_embeddings, similarity_matrix, idx, candidates,
                   results, mapping_file, mysql_rows, pathVars, compVars,
                   esco_artifacts>>

\* Lines 157-174 for row idx: the threshold test and the appended record.
DecideMapping ==
    /\ pc = "decide"
    /\ results' = Append(results,
                         Decide(course_skills[idx],
                                Chosen(reranked_candidates, candidates),
                                esco_metadata,
                                settings.min_similarity))
    /\ idx' = idx + 1
    /\ pc' = AfterRow(idx + 1)
    /\ UNCHANGED <<failure, settings, encoder_loaded, encoder_dim, reranker,
                   course_skills, course_embeddings, esco_metadata,
                   esco_embeddings, similarity_matrix, candidates,
                   reranked_candidates, rerank_calls, mapping_file,
                   mysql_rows, pathVars, compVars,
                   esco_artifacts>>

\* records = [item.as_record() for item in mapped_results]
Records(mapped_results) ==
    [i \in 1..Len(mapped_results) |-> as_record(mapped_results[i])]

\* self._write_to_disk(records): the file is opened with "w" and rewritten.
WriteToDisk ==
    /\ pc = "write"
    /\ mapping_file' = [exists |-> TRUE, records |-> Records(results)]
    /\ pc' = "mysql"
    /\ UNCHANGED <<failure, settings, encoder_loaded, encoder_dim, reranker,
                   course_skills, course_embeddings, esco_metadata,
                   esco_embeddings, similarity_matrix, idx, candidates,
                   reranked_candidates, results, rerank_calls, mysql_rows,
                   pathVars, compVars,
                   esco_artifacts>>

\* self._mysql_service.initialize(); self._mysql_service.insert_records(records):
\* both return at once when MySQL is disabled; otherwise every record is
\* inserted as a new row and committed.
InsertRecords ==
    /\ pc = "mysql"
    /\ mysql_rows' = IF settings.mysql_enabled
                     THEN mysql_rows \o Records(results)
                     ELSE mysql_rows
    /\ pc' = "done"
    /\ UNCHANGED <<failure, settings, encoder_loaded, encoder_dim, reranker,
                   course_skills, course_embeddings, esco_metadata,
                   esco_embeddings, similarity_matrix, idx, candidates,
                   reranked_candidates, results, rerank_calls, mapping_file,
                   pathVars, compVars,
                   esco_artifacts>>

Next ==
    \/ LoadEncoder
    \/ run_embedding_phase
    \/ CleanupEncoder
    \/ LoadReranker
    \/ EnterMappingPhase
    \/ SelectCandidates
    \/ RerankCandidates
    \/ DecideMapping
    \/ WriteToDisk
    \/ InsertRecords

Spec == Init /\ [][Next]_vars

\* ------------------------------------------------------ recommend_courses
\* Skill ids the graph may attach to a course.
SkillIds == {"s1", "s2"}
\* max_courses: a limit below the result size, and the default.
MaxCoursesValues == {1, 10}

\* A course's position in the list; course ids are distinct, so a course is
\* named by the position at which _get_courses_for_skills returned it.
CourseIds(cs) == 1..Len(cs)

\* The same condition without the check that the two courses differ.
DependsOn_CountsSelf(cs, course, other) ==
    cs[course].required_skills \cap cs[other].taught_skills # {}

\* required_skill_ids & taught_skill_ids is non-empty for two different
\* courses: other teaches something course requires (lines 176-181).
DependsOn(cs, course, other) ==
    /\ other # course
    /\ cs[course].required_skills \cap cs[other].taught_skills # {}

\* graph[other]: the courses depending on other, in the order the outer
\* loop appended them (lines 175-183).
Graph(cs) ==
    [other \in CourseIds(cs) |->
        SelectSeq([i \in 1..Len(cs) |-> i], LAMBDA course : DependsOn(cs, course, other))]

\* Every in-degree left at the 0 of lines 170-172.
InDegree_NeverIncremented(cs) == [course \in CourseIds(cs) |-> 0]

\* in_degree[course]: one increment per other course it depends on
\* (lines 170-184).
InDegree(cs) ==
    [course \in CourseIds(cs) |->
        Cardinality({other \in CourseIds(cs) : DependsOn(cs, course, other)})]

\* Every course queued at the start, whatever its in-degree.
InitialQueue_All(deg) == [i \in 1..Cardinality(DOMAIN deg) |-> i]

\* deque([cid for cid in in_degree if in_degree[cid] == 0]): dict order is
\* the order of the course list.
InitialQueue(deg) ==
    SelectSeq([i \in 1..Cardinality(DOMAIN deg) |-> i], LAMBDA cid : deg[cid] = 0)

\* for neighbor in graph[cid]: in_degree[neighbor] -= 1; a neighbour that
\* reaches 0 is appended to the queue.  Returns <<in_degree, queue>>.
RECURSIVE ProcessNeighbors(_, _, _)
ProcessNeighbors(neighbors, deg, q) ==
    IF Len(neighbors) = 0 THEN <<deg, q>>
    ELSE LET neighbor == Head(neighbors)
             deg2     == [deg EXCEPT ![neighbor] = @ - 1]
         IN  ProcessNeighbors(Tail(neighbors), deg2,
                              IF deg2[neighbor] = 0 THEN Append(q, neighbor) ELSE q)

\* Whether x occurs in the list.
InList(x, list) == \E i \in 1..Len(list) : list[i] = x

\* Every course is taken as never dequeued.
Remaining_All(deg, order) == [i \in 1..Cardinality(DOMAIN deg) |-> i]

\* remaining = [cid for cid in in_degree if cid not in sorted_order]
Remaining(deg, order) ==
    SelectSeq([i \in 1..Cardinality(DOMAIN deg) |-> i], LAMBDA cid : ~InList(cid, order))

\* enriched_courses[:max_courses]
Prefix(list, n) == SubSeq(list, 1, Min(n, Len(list)))

PathInit ==
    /\ MapIdle
    /\ CompIdle
    /\ courses = <<>>
    /\ max_courses \in MaxCoursesValues
    /\ graph = <<>>
    /\ in_degree = <<>>
    /\ queue = <<>>
    /\ sorted_order = <<>>
    /\ level = 0
    /\ level_size = 0
    /\ remaining = <<>>
    /\ final_path = <<>>
    /\ rpc = "start"

\* courses = self._get_courses_for_skills(skill_ids); no course returns the
\* empty answer at once (lines 24-31).
GetCoursesForSkills ==
    /\ rpc = "start"
    /\ \E n \in 0..MaxCourses :
          /\ courses' = [i \in 1..n |-> [course_id |-> i]]
          /\ rpc' = IF n = 0 THEN "done" ELSE "enrich"
    /\ UNCHANGED <<max_courses, graph, in_degree, queue, sorted_order, level,
                   level_size, remaining, final_path, mapVars, compVars>>

\* _enrich_courses_with_skills: each course gets its taught and required
\* skills from the graph store and prerequisite_level = 0.
EnrichCoursesWithSkills ==
    /\ rpc = "enrich"
    /\ \E taught, required \in [CourseIds(courses) -> SUBSET SkillIds] :
          courses' = [i \in 1..Len(courses) |->
                         [course_id |-> courses[i].course_id,
                          taught_skills |-> taught[i],
                          required_skills |-> required[i],
                          prerequisite_level |-> 0]]
    /\ rpc' = "build"
    /\ UNCHANGED <<max_courses, graph, in_degree, queue, sorted_order, level,
                   level_size, remaining, final_path, mapVars, compVars>>

\* _create_learning_path, lines 165-189: the dependency graph, the
\* in-degrees, the initial queue.
BuildGraph ==
    /\ rpc = "build"
    /\ graph' = Graph(courses)
    /\ in_degree' = InDegree(courses)
    /\ queue' = InitialQueue(InDegree(courses))
    /\ sorted_order' = <<>>
    /\ level' = 0
    /\ rpc' = "while"
    /\ UNCHANGED <<courses, max_courses, level_size, remaining, final_path,
                   mapVars, compVars>>

\* while queue: level_size = len(queue)
StartRound ==
    /\ rpc = "while"
    /\ Len(queue) > 0
    /\ level_size' = Len(queue)
    /\ rpc' = "for"
    /\ UNCHANGED <<courses, max_courses, graph, in_degree, queue,
                   sorted_order, level, remaining, final_path, mapVars, compVars>>

\* The same iteration storing level + 1 as the course's level.
Dequeue_NextLevel ==
    /\ rpc = "for"
    /\ level_size > 0
    /\ LET cid   == Head(queue)
           after == ProcessNeighbors(graph[cid], in_degree, Tail(queue))
       IN  /\ sorted_order' = Append(sorted_order, cid)
           /\ courses' = [courses EXCEPT ![cid].prerequisite_level = level + 1]
           /\ in_degree' = after[1]
           /\ queue' = after[2]
    /\ level_size' = level_size - 1
    /\ UNCHANGED <<max_courses, graph, level, remaining, final_path, rpc,
                   mapVars, compVars>>

\* One iteration of "for _ in range(level_size)" (lines 194-200).
Dequeue ==
    /\ rpc = "for"
    /\ level_size > 0
    /\ LET cid   == Head(queue)
           after == ProcessNeighbors(graph[cid], in_degree, Tail(queue))
       IN  /\ sorted_order' = Append(sorted_order, cid)
           /\ courses' = [courses EXCEPT ![cid].prerequisite_level = level]
           /\ in_degree' = after[1]
           /\ queue' = after[2]
    /\ level_size' = level_size - 1
    /\ UNCHANGED <<max_courses, graph, level, remaining, final_path, rpc,
                   mapVars, compVars>>

\* The round ends without "level += 1".
EndRound_KeepsLevel ==
    /\ rpc = "for"
    /\ level_size = 0
    /\ rpc' = "while"
    /\ UNCHANGED <<courses, max_courses, graph, in_degree, queue,
                   sorted_order, level, level_size, remaining, final_path,
                   mapVars, compVars>>

\* level += 1
EndRound ==
    /\ rpc = "for"
    /\ level_size = 0
    /\ level' = level + 1
    /\ rpc' = "while"
    /\ UNCHANGED <<courses, max_courses, graph, in_degree, queue,
                   sorted_order, level_size, remaining, final_path, mapVars, compVars>>

\* Lines 203-207: the loop has ended; the courses never dequeued are
\* appended and sorted_order is returned.
AppendRemaining ==
    /\ rpc = "while"
    /\ Len(queue) = 0
    /\ remaining' = Remaining(in_degree, sorted_order)
    /\ sorted_order' = sorted_order \o Remaining(in_degree, sorted_order)
    /\ rpc' = "limit"
    /\ UNCHANGED <<courses, max_courses, graph, in_degree, queue, level,
                   level_size, final_path, mapVars, compVars>>

\* Lines 39-47: final_courses = enriched_courses[:max_courses];
\* final_path = [c["course_id"] for c in final_courses]; the list returned
\* by _create_learning_path is not read.
ReturnRecommendation ==
    /\ rpc = "limit"
    /\ final_path' = [i \in 1..Len(Prefix(courses, max_courses)) |->
                         Prefix(courses, max_courses)[i].course_id]
    /\ rpc' = "done"
    /\ UNCHANGED <<courses, max_courses, graph, in_degree, queue,
                   sorted_order, level, level_size, remaining, mapVars, compVars>>

PathNext ==
    \/ GetCoursesForSkills
    \/ EnrichCoursesWithSkills
    \/ BuildGraph
    \/ StartRound
    \/ Dequeue
    \/ EndRound
    \/ AppendRemaining
    \/ ReturnRecommendation

SpecPath == PathInit /\ [][PathNext]_vars

\* The call is not suspended: recommend_courses is straight-line code with
\* loops, run by one thread, so a step that can be taken is taken.
SpecPathFair == SpecPath /\ WF_vars(PathNext)


\* --------------------------------------------------------- _top_k_indices
\* The similarities a score vector may hold, in units of 1/25.
ScoreValues == {0, 15, 25}

\* _top_k_indices is called with a score vector of any length and k >= 1
\* (the caller passes max(1, rerank_top_k)).
TopKInit ==
    /\ MapIdle
    /\ ExtIdle
    /\ PathIdle
    /\ RerankIdle
    /\ StoreIdle
    /\ BuildIdle
    /\ tk_scores \in SeqUpTo(ScoreValues, MaxScores)
    /\ tk_k \in 1..MaxTopK
    /\ tk_indices = <<>>
    /\ tk_pc = "start"

\* The call returns one of the arrangements numpy may produce.
_top_k_indices ==
    /\ tk_pc = "start"
    /\ tk_indices' \in TopKOutcomes(tk_scores, tk_k)
    /\ tk_pc' = "returned"
    /\ UNCHANGED <<tk_scores, tk_k, mapVars, pathVars, extVars, rerankVars, storeVars,
                   buildVars>>

TopKNext == _top_k_indices

SpecTopK == TopKInit /\ [][TopKNext]_vars

\* ------------------------------------------------- RerankerService.rerank
\* RerankerConfig.batch_size: values below 1, batches of one and two, and
\* the default.
BatchSizeValues == {-1, 0, 1, 2, 4}
\* The raw similarities the candidates carry.
CandidateSimilarities == {10, 20}

\* candidate["text"]: _compose_esco_text of the candidate's taxonomy row.
EscoText(index) == <<"text", index>>

\* The candidate lists: distinct taxonomy indices in any order.
CandidateLists ==
    {Candidates(sims, order) :
        sims \in [1..MaxCandidates -> CandidateSimilarities],
        order \in {s \in SeqUpTo(1..MaxCandidates, MaxCandidates) :
                      \A i, j \in 1..Len(s) : i # j => s[i] # s[j]}}

\* pairs = [(query, candidate.get("text", "")) for candidate in candidates];
\* the query is the same in every pair of a call.
Pairs(cands) == [i \in 1..Len(cands) |-> EscoText(cands[i].index)]

\* batch_size = max(1, self._config.batch_size)
BatchSize(configured) == Max(1, configured)

\* The scores of a batch, appended in the reverse of the batch's order.
BatchScores_Reversed(batch_pairs, scorer) ==
    [i \in 1..Len(batch_pairs) |-> scorer[batch_pairs[Len(batch_pairs) + 1 - i]]]

\* logits of one forward pass over batch_pairs, as a list: entry i is the
\* score of pair i of the batch.
BatchScores(batch_pairs, scorer) ==
    [i \in 1..Len(batch_pairs) |-> scorer[batch_pairs[i]]]

RerankInit ==
    /\ MapIdle
    /\ ExtIdle
    /\ PathIdle
    /\ TopKIdle
    /\ StoreIdle
    /\ BuildIdle
    /\ rr_candidates \in CandidateLists
    /\ rr_batch_size \in BatchSizeValues
    /\ rr_scorer \in [{EscoText(i) : i \in 1..MaxCandidates} -> RerankScores]
    /\ rr_pairs = <<>>
    /\ rr_start = 0
    /\ rr_scores = <<>>
    /\ rr_reranked = <<>>
    /\ rr_pc = "start"

\* Lines 89-94: no candidate returns [] at once; otherwise the pairs are
\* built and the batch loop starts at 0.
BuildPairs ==
    /\ rr_pc = "start"
    /\ \/ /\ Len(rr_candidates) = 0
          /\ rr_pc' = "returned"
          /\ UNCHANGED rr_pairs
       \/ /\ Len(rr_candidates) > 0
          /\ rr_pairs' = Pairs(rr_candidates)
          /\ rr_pc' = "batches"
    /\ UNCHANGED <<rr_candidates, rr_batch_size, rr_scorer, rr_start,
                   rr_scores, rr_reranked, mapVars, pathVars, extVars, topkVars,
                   storeVars, buildVars>>

\* One iteration of "for start in range(0, len(pairs), batch_size)".
ScoreBatch ==
    /\ rr_pc = "batches"
    /\ rr_start < Len(rr_pairs)
    /\ LET batch_size  == BatchSize(rr_batch_size)
           batch_pairs == SubSeq(rr_pairs, rr_start + 1,
                                 Min(rr_start + batch_size, Len(rr_pairs)))
       IN  /\ rr_scores' = rr_scores \o BatchScores(batch_pairs, rr_scorer)
           /\ rr_start' = rr_start + batch_size
    /\ UNCHANGED <<rr_candidates, rr_batch_size, rr_scorer, rr_pairs,
                   rr_reranked, rr_pc, mapVars, pathVars, extVars, topkVars,
                   storeVars, buildVars>>

\* Lines 125-132: the enriched copies, sorted, are returned.
SortAndReturn ==
    /\ rr_pc = "batches"
    /\ rr_start >= Len(rr_pairs)
    /\ rr_reranked' = Rerank(rr_candidates, rr_scores)
    /\ rr_pc' = "returned"
    /\ UNCHANGED <<rr_candidates, rr_batch_size, rr_scorer, rr_pairs,
                   rr_start, rr_scores, mapVars, pathVars, extVars, topkVars,
                   storeVars, buildVars>>

RerankNext ==
    \/ BuildPairs
    \/ ScoreBatch
    \/ SortAndReturn

SpecRerank == RerankInit /\ [][RerankNext]_vars

\* ----------------------------------------------------------- Neo4jService
\* The ids and property values the rows may carry.
CourseIdValues == {"c1", "c2"}
SkillLabels == {"l1", "l2"}
CourseTitles == {"t1", "t2"}
TeachesScores == {15, 20}
EdgeSources == {"embedding+rerank", "curated"}

\* SkillNode.to_dict()
SkillRows ==
    {[skill_id |-> s, preferred_label |-> l, description |-> NULL,
      skill_type |-> "knowledge", alternative_labels |-> <<>>] :
        s \in SkillIds, l \in SkillLabels}

\* BroaderEdge.to_dict()
BroaderRows == [child_id : SkillIds, parent_id : SkillIds]

\* CourseNode.to_dict()
CourseRows ==
    {[course_id |-> c, course_title |-> t, category |-> NULL, source_file |-> ""] :
        c \in CourseIdValues, t \in CourseTitles}

\* TeachesEdge.to_dict()
TeachesRows ==
    {[course_id |-> c, skill_id |-> s, similarity_score |-> x,
      skill_type |-> "outcome", source |-> "embedding+rerank"] :
        c \in CourseIdValues, s \in SkillIds, x \in TeachesScores}

\* RequiresEdge.to_dict()
RequiresRows ==
    {[course_id |-> c, skill_id |-> s, skill_type |-> "entry", source |-> x] :
        c \in CourseIdValues, s \in SkillIds, x \in EdgeSources}

\* The five batch_merge_* operations and the rows each takes.
MergeKinds == {"skills", "broader", "courses", "teaches", "requires"}

RowsOf(kind) ==
    CASE kind = "skills"   -> SkillRows
      [] kind = "broader"  -> BroaderRows
      [] kind = "courses"  -> CourseRows
      [] kind = "teaches"  -> TeachesRows
      [] kind = "requires" -> RequiresRows

\* MATCH (s:Skill {skill_id: ...}) finds a node.
HasSkill(g, skill_id) == \E i \in 1..Len(g.skills) : g.skills[i].skill_id = skill_id

\* MATCH (c:Course {course_id: ...}) finds a node.
HasCourse(g, course_id) == \E i \in 1..Len(g.courses) : g.courses[i].course_id = course_id

\* MERGE on a key, then SET: the items with the row's key take the row's
\* values; if there is none, one is created with them.
Upsert(items, row, key) ==
    LET SameKey(a, b) == \A field \in key : a[field] = b[field]
    IN  IF \E i \in 1..Len(items) : SameKey(items[i], row)
        THEN [i \in 1..Len(items) |-> IF SameKey(items[i], row) THEN row ELSE items[i]]
        ELSE Append(items, row)

\* A relationship between the same course and the same skill.
SamePair(a, b) == a.course_id = b.course_id /\ a.skill_id = b.skill_id

\* One row of _merge_skill_batch.
MergeSkillRow(g, row) ==
    [g EXCEPT !.skills = Upsert(g.skills, row, {"skill_id"})]

\* MERGE of the relationship without the two MATCHes.
MergeBroaderRow_NoMatch(g, row) ==
    [g EXCEPT !.broader = Upsert(g.broader, row, {"child_id", "parent_id"})]

\* One row of _merge_broader_batch: both MATCHes must find their node.
MergeBroaderRow(g, row) ==
    IF HasSkill(g, row.child_id) /\ HasSkill(g, row.parent_id)
    THEN [g EXCEPT !.broader = Upsert(g.broader, row, {"child_id", "parent_id"})]
    ELSE g

\* CREATE in place of MERGE: a node is added whatever the graph holds.
MergeCourseRow_Creates(g, row) ==
    [g EXCEPT !.courses = Append(g.courses, row)]

\* One row of _merge_course_batch.
MergeCourseRow(g, row) ==
    [g EXCEPT !.courses = Upsert(g.courses, row, {"course_id"})]

\* CREATE in place of MERGE: a relationship is added between the matched
\* nodes whatever the graph holds.
MergeTeachesRow_Creates(g, row) ==
    IF HasCourse(g, row.course_id) /\ HasSkill(g, row.skill_id)
    THEN [g EXCEPT !.teaches = Append(g.teaches, row)]
    ELSE g

\* One row of _merge_teaches_batch.
MergeTeachesRow(g, row) ==
    IF HasCourse(g, row.course_id) /\ HasSkill(g, row.skill_id)
    THEN [g EXCEPT !.teaches = Upsert(g.teaches, row, {"course_id", "skill_id"})]
    ELSE g

\* One row of _merge_requires_batch.
MergeRequiresRow(g, row) ==
    IF HasCourse(g, row.course_id) /\ HasSkill(g, row.skill_id)
    THEN [g EXCEPT !.requires = Upsert(g.requires, row, {"course_id", "skill_id"})]
    ELSE g

MergeRow(g, kind, row) ==
    CASE kind = "skills"   -> MergeSkillRow(g, row)
      [] kind = "broader"  -> MergeBroaderRow(g, row)
      [] kind = "courses"  -> MergeCourseRow(g, row)
      [] kind = "teaches"  -> MergeTeachesRow(g, row)
      [] kind = "requires" -> MergeRequiresRow(g, row)

\* UNWIND $batch AS row: the rows of a batch in order, in one transaction.
RECURSIVE MergeBatch(_, _, _)
MergeBatch(g, kind, batch) ==
    IF Len(batch) = 0 THEN g
    ELSE MergeBatch(MergeRow(g, kind, Head(batch)), kind, Tail(batch))

\* The batches batch_merge_* sends: a batch is sent when it holds
\* batch_size rows (at least one), the rest after the loop.
Batches(rows, batch_size) ==
    LET size == Max(1, batch_size)
    IN  [b \in 1..((Len(rows) + size - 1) \div size) |->
            SubSeq(rows, (b - 1) * size + 1, Min(b * size, Len(rows)))]

\* The batches sent one after the other, each committed on its own.
RECURSIVE MergeBatches(_, _, _)
MergeBatches(g, kind, batches) ==
    IF Len(batches) = 0 THEN g
    ELSE MergeBatches(MergeBatch(g, kind, Head(batches)), kind, Tail(batches))

\* A caller of the service on a new database.
StoreInit ==
    /\ MapIdle
    /\ ExtIdle
    /\ PathIdle
    /\ TopKIdle
    /\ RerankIdle
    /\ BuildIdle
    /\ neo4j_graph = EmptyGraph
    /\ st_rows = 0
    /\ st_last = NoCall

\* _merge_skill_batch, _merge_broader_batch, _merge_course_batch,
\* _merge_teaches_batch, _merge_requires_batch: one session.run with a
\* batch of at least one row, committed as a whole.
_merge_batch(kind) ==
    /\ st_rows < MaxRows
    /\ \E batch \in SeqUpTo(RowsOf(kind), MaxRows - st_rows) :
          /\ Len(batch) > 0
          /\ neo4j_graph' = MergeBatch(neo4j_graph, kind, batch)
          /\ st_rows' = st_rows + Len(batch)
          /\ st_last' = [kind |-> kind, batch |-> batch]
    /\ UNCHANGED <<mapVars, pathVars, extVars, topkVars, rerankVars,
                   buildVars>>

\* MATCH (n) DETACH DELETE n
clear_graph ==
    /\ neo4j_graph' = EmptyGraph
    /\ st_last' = [kind |-> "clear_graph", batch |-> <<>>]
    /\ UNCHANGED <<st_rows, mapVars, pathVars, extVars, topkVars, rerankVars,
                   buildVars>>

StoreNext ==
    \/ _merge_batch("skills")
    \/ _merge_batch("broader")
    \/ _merge_batch("courses")
    \/ _merge_batch("teaches")
    \/ _merge_batch("requires")
    \/ clear_graph

SpecStore == StoreInit /\ [][StoreNext]_vars

\* ----------------------------------------------------- GraphBuildPipeline
\* The rows of the ESCO skills file.
SkillsCsvRows == [conceptUri : SkillIds, preferredLabel : {"l1"}]
\* relation_map: no skill has a broader skill, or s1 is the broader skill
\* of s2.
RelationMaps ==
    {[s \in SkillIds |-> <<>>],
     [s \in SkillIds |-> IF s = "s2" THEN <<"s1">> ELSE <<>>]}
\* The records of course_skill_mappings.jsonl: an outcome or entry skill of
\* a course, mapped to s1 or left unmapped.
MappingRecords ==
    {[course_id |-> Some(c), course_title |-> "t1", category |-> NULL,
      source_file |-> "", skill_type |-> t, esco_skill_id |-> e,
      similarity_score |-> IF e = NULL THEN 15 ELSE 20] :
        c \in CourseIdValues, t \in {"outcome", "entry"}, e \in {NULL, Some("s1")}}
\* settings.neo4j.batch_size
BuildBatchSizes == {1, 2}

\* load_skills: one Skill per row of the skills file, its broader skills
\* looked up by conceptUri.
load_skills(skills_csv, relation_map) ==
    [i \in 1..Len(skills_csv) |->
        [skill_id |-> skills_csv[i].conceptUri,
         preferred_label |-> skills_csv[i].preferredLabel,
         description |-> NULL,
         skill_type |-> "knowledge",
         broader_skill_ids |-> relation_map[skills_csv[i].conceptUri],
         alternative_labels |-> <<>>]]

\* load_skill_nodes, then SkillNode.to_dict()
load_skill_nodes(skills) ==
    [i \in 1..Len(skills) |->
        [skill_id |-> skills[i].skill_id,
         preferred_label |-> skills[i].preferred_label,
         description |-> skills[i].description,
         skill_type |-> skills[i].skill_type,
         alternative_labels |-> skills[i].alternative_labels]]

\* load_broader_edges, then BroaderEdge.to_dict(): one edge per skill and
\* broader skill id, skill by skill.
RECURSIVE load_broader_edges(_)
load_broader_edges(skills) ==
    IF Len(skills) = 0 THEN <<>>
    ELSE LET skill == Head(skills)
         IN  [j \in 1..Len(skill.broader_skill_ids) |->
                 [child_id |-> skill.skill_id,
                  parent_id |-> skill.broader_skill_ids[j]]]
             \o load_broader_edges(Tail(skills))

\* Any value but None counts as set.
Truthy_NotNone(value) == value # NULL

\* Python truthiness of an optional string: neither None nor "".
Truthy(value) == value # NULL /\ value # Some("")

\* load_course_mappings: a CourseNode from the first record of each
\* course_id that is set, a TEACHES edge per outcome record and a REQUIRES
\* edge per entry record whose esco_skill_id and course_id are set, each
\* as its to_dict().
load_course_mappings(records) ==
    LET positions == [i \in 1..Len(records) |-> i]
        first     == SelectSeq(positions, LAMBDA i :
                        /\ Truthy(records[i].course_id)
                        /\ \A j \in 1..(i - 1) : records[j].course_id # records[i].course_id)
        outcome   == SelectSeq(records, LAMBDA r :
                        /\ Truthy(r.esco_skill_id) /\ Truthy(r.course_id)
                        /\ r.skill_type = "outcome")
        entry     == SelectSeq(records, LAMBDA r :
                        /\ Truthy(r.esco_skill_id) /\ Truthy(r.course_id)
                        /\ r.skill_type = "entry")
    IN  [courses |->
            [n \in 1..Len(first) |->
                [course_id |-> records[first[n]].course_id[1],
                 course_title |-> records[first[n]].course_title,
                 category |-> records[first[n]].category,
                 source_file |-> records[first[n]].source_file]],
         teaches_edges |->
            [n \in 1..Len(outcome) |->
                [course_id |-> outcome[n].course_id[1],
                 skill_id |-> outcome[n].esco_skill_id[1],
                 similarity_score |-> outcome[n].similarity_score,
                 skill_type |-> outcome[n].skill_type,
                 source |-> "embedding+rerank"]],
         requires_edges |->
            [n \in 1..Len(entry) |->
                [course_id |-> entry[n].course_id[1],
                 skill_id |-> entry[n].esco_skill_id[1],
                 skill_type |-> entry[n].skill_type,
                 source |-> "embedding+rerank"]]]

\* The rows GraphBuildPipeline.run hands to batch_merge_<kind>.
RowsToMerge(kind) ==
    LET skills == load_skills(gb_skills_csv, gb_relation_map)
        loaded == load_course_mappings(gb_mappings_file.records)
    IN  CASE kind = "skills"   -> load_skill_nodes(skills)
          [] kind = "broader"  -> load_broader_edges(skills)
          [] kind = "courses"  -> loaded.courses
          [] kind = "teaches"  -> loaded.teaches_edges
          [] kind = "requires" -> loaded.requires_edges

\* The position after batch_merge_<kind> has returned; without a mappings
\* file the course part is skipped.
AfterOperation(kind) ==
    CASE kind = "skills"   -> "broader"
      [] kind = "broader"  -> IF gb_mappings_file.exists THEN "courses" ELSE "close"
      [] kind = "courses"  -> "teaches"
      [] kind = "teaches"  -> "requires"
      [] kind = "requires" -> "close"

\* build_graph.main on a new database: the two input files hold at most
\* MaxInputRows rows together.
GraphBuildInit ==
    /\ MapIdle
    /\ ExtIdle
    /\ PathIdle
    /\ TopKIdle
    /\ RerankIdle
    /\ neo4j_graph = EmptyGraph
    /\ st_rows = 0
    /\ st_last = NoCall
    /\ gb_skills_csv \in SeqUpTo(SkillsCsvRows, MaxInputRows)
    /\ gb_relation_map \in RelationMaps
    /\ gb_mappings_file \in
          {[exists |-> FALSE, records |-> <<>>]}
          \cup {[exists |-> TRUE, records |-> r] :
                   r \in SeqUpTo(MappingRecords, MaxInputRows - Len(gb_skills_csv))}
    /\ gb_batch_size \in BuildBatchSizes
    /\ gb_clear_existing \in BOOLEAN
    /\ gb_pc = "start"
    /\ gb_sent = 0
    /\ gb_run = 1
    /\ gb_attempts = 0
    /\ gb_failure = NoFailure
    /\ gb_first = NULL

\* run, lines 22-36: connect, clear_graph if asked, create_indexes, the
\* skills are loaded.
ConnectAndPrepare ==
    /\ gb_pc = "start"
    /\ neo4j_graph' = IF gb_clear_existing THEN EmptyGraph ELSE neo4j_graph
    /\ gb_pc' = "skills"
    /\ gb_sent' = 0
    /\ gb_attempts' = 0
    /\ UNCHANGED <<gb_skills_csv, gb_relation_map, gb_mappings_file,
                   gb_batch_size, gb_clear_existing, gb_run, gb_failure,
                   gb_first, st_rows, st_last, mapVars, pathVars, extVars, topkVars,
                   rerankVars>>

\* The batch batch_merge_<kind> sends next.
NextBatch(kind) ==
    SubSeq(RowsToMerge(kind), gb_sent + 1,
           Min(gb_sent + Max(1, gb_batch_size), Len(RowsToMerge(kind))))

\* One session.run of a batch_merge_* call returns: the batch is
\* committed.
MergeNextBatch ==
    /\ gb_pc \in MergeKinds
    /\ gb_sent < Len(RowsToMerge(gb_pc))
    /\ neo4j_graph' = MergeBatch(neo4j_graph, gb_pc, NextBatch(gb_pc))
    /\ gb_sent' = gb_sent + Len(NextBatch(gb_pc))
    /\ gb_attempts' = 0
    /\ UNCHANGED <<gb_skills_csv, gb_relation_map, gb_mappings_file,
                   gb_batch_size, gb_clear_existing, gb_pc, gb_run,
                   gb_failure, gb_first, st_rows, st_last, mapVars, pathVars, extVars,
                   topkVars, rerankVars>>

\* One session.run of a batch_merge_* call raises: nothing of the batch is
\* committed, nothing catches the exception, it leaves run and main.
BatchFails ==
    /\ gb_pc \in MergeKinds
    /\ gb_sent < Len(RowsToMerge(gb_pc))
    /\ gb_attempts' = gb_attempts + 1
    /\ gb_failure' = [error |-> "Neo4jError", boundary |-> NULL]
    /\ gb_pc' = "failed"
    /\ UNCHANGED <<gb_skills_csv, gb_relation_map, gb_mappings_file,
                   gb_batch_size, gb_clear_existing, gb_sent, gb_run,
                   gb_first, storeVars, mapVars, pathVars, extVars, topkVars,
                   rerankVars>>

\* batch_merge_<kind> has sent all its rows and returns.
NextOperation ==
    /\ gb_pc \in MergeKinds
    /\ gb_sent = Len(RowsToMerge(gb_pc))
    /\ gb_pc' = AfterOperation(gb_pc)
    /\ gb_sent' = 0
    /\ UNCHANGED <<gb_skills_csv, gb_relation_map, gb_mappings_file,
                   gb_batch_size, gb_clear_existing, gb_run, gb_attempts,
                   gb_failure, gb_first, storeVars, mapVars, pathVars, extVars,
                   topkVars, rerankVars>>

\* run, lines 78-79: the pipeline has completed, the connection is closed.
CloseConnection ==
    /\ gb_pc = "close"
    /\ gb_pc' = "done"
    /\ gb_first' = IF gb_run = 1 THEN Some(neo4j_graph) ELSE gb_first
    /\ UNCHANGED <<gb_skills_csv, gb_relation_map, gb_mappings_file,
                   gb_batch_size, gb_clear_existing, gb_sent, gb_run,
                   gb_attempts, gb_failure, storeVars, mapVars, pathVars, extVars,
                   topkVars, rerankVars>>

\* build_graph is started a second time over the same files.
RunAgain ==
    /\ gb_pc \in {"done", "failed"}
    /\ gb_run = 1
    /\ gb_run' = 2
    /\ gb_pc' = "start"
    /\ gb_sent' = 0
    /\ gb_attempts' = 0
    /\ gb_failure' = NoFailure
    /\ UNCHANGED <<gb_skills_csv, gb_relation_map, gb_mappings_file,
                   gb_batch_size, gb_clear_existing, gb_first, storeVars,
                   mapVars, pathVars, extVars, topkVars, rerankVars>>

GraphBuildNext ==
    \/ ConnectAndPrepare
    \/ MergeNextBatch
    \/ BatchFails
    \/ NextOperation
    \/ CloseConnection
    \/ RunAgain

SpecGraphBuild == GraphBuildInit /\ [][GraphBuildNext]_vars

\* --------------------------------------------------- load_course_mappings
\* The records a mappings file may hold: the course id absent or set, two
\* titles, a skill type the loader knows or not, the taxonomy id absent
\* (the skill was left unmapped), empty or set.
LoaderRecords ==
    {[course_id |-> c, course_title |-> title, category |-> NULL,
      source_file |-> "", skill_type |-> t, esco_skill_id |-> e,
      similarity_score |-> IF e = Some("s1") THEN 20 ELSE 15] :
        c \in {NULL, Some("c1"), Some("c2")}, title \in CourseTitles,
        t \in {"outcome", "entry", "other"}, e \in {NULL, Some(""), Some("s1")}}

LoadMappingsInit ==
    /\ MapIdle
    /\ PathIdle
    /\ TopKIdle
    /\ RerankIdle
    /\ StoreIdle
    /\ BuildIdle
    /\ lm_records \in SeqUpTo(LoaderRecords, MaxRecords)
    /\ lm_loaded = NULL
    /\ lm_pc = "called"
    /\ pe_skills = <<>>
    /\ pe_run = 0
    /\ pe_pc = "idle"
    /\ skills_metadata_jsonl = NULL
    /\ skills_embeddings_npy = NULL
    /\ le_loaded = NULL
    /\ le_resolved = NULL
    /\ rn_course_skills = <<>>
    /\ rn_esco_embeddings = <<>>
    /\ rn_settings = NULL
    /\ rn_scorer = "flat"
    /\ rn_mapping_file = [exists |-> FALSE, records |-> <<>>]
    /\ rn_mysql_rows = <<>>
    /\ rn_runs = 0
    /\ rn_last = NULL
    /\ rn_first = NULL
    /\ rn_permuted = NULL

\* The call returns the three lists.
LoadCourseMappings ==
    /\ lm_pc = "called"
    /\ lm_loaded' = Some(load_course_mappings(lm_records))
    /\ lm_pc' = "returned"
    /\ UNCHANGED <<lm_records, artifactVars, runVars, mapVars, pathVars, topkVars,
                   rerankVars, storeVars, buildVars>>

LoadMappingsNext == LoadCourseMappings

SpecLoadMappings == LoadMappingsInit /\ [][LoadMappingsNext]_vars

\* ------------------------------ _persist_embeddings / load_esco_embeddings
\* The filtered skills a run of the skill embedding pipeline may hold when
\* it reaches _persist_embeddings (_validate_embedding_dim has read
\* embeddings.shape[1], so there is at least one).
SkillLists == SeqUpTo(SkillIds, MaxTaxonomy) \ {<<>>}

\* EmbeddingService.encode of _compose_text(skill): a fixed row per skill.
SkillEmbedding(skill_id) == IF skill_id = "s1" THEN <<5, 0>> ELSE <<6, 8>>

\* Skill.as_index_document(), as the line json.dumps writes and json.loads
\* reads back.
as_index_document(skill_id) ==
    [skill_id |-> skill_id, preferred_label |-> <<"label", skill_id>>,
     description |-> <<"description", skill_id>>]

\* The artifacts directory is empty; a first run of the skill embedding
\* pipeline has encoded its skills and calls _persist_embeddings.
ArtifactsInit ==
    /\ MapIdle
    /\ PathIdle
    /\ TopKIdle
    /\ RerankIdle
    /\ StoreIdle
    /\ BuildIdle
    /\ lm_records = <<>>
    /\ lm_loaded = NULL
    /\ lm_pc = "idle"
    /\ pe_skills \in SkillLists
    /\ pe_run = 1
    /\ pe_pc = "persist"
    /\ skills_metadata_jsonl = NULL
    /\ skills_embeddings_npy = NULL
    /\ le_loaded = NULL
    /\ le_resolved = NULL
    /\ rn_course_skills = <<>>
    /\ rn_esco_embeddings = <<>>
    /\ rn_settings = NULL
    /\ rn_scorer = "flat"
    /\ rn_mapping_file = [exists |-> FALSE, records |-> <<>>]
    /\ rn_mysql_rows = <<>>
    /\ rn_runs = 0
    /\ rn_last = NULL
    /\ rn_first = NULL
    /\ rn_permuted = NULL

\* _persist_embeddings, lines 70-72: the metadata file is opened with "w"
\* and one line per skill is written.
WriteMetadata ==
    /\ pe_pc = "persist"
    /\ skills_metadata_jsonl' =
            Some([i \in 1..Len(pe_skills) |-> as_index_document(pe_skills[i])])
    /\ pe_pc' = "metadata_written"
    /\ UNCHANGED <<pe_skills, pe_run, skills_embeddings_npy, le_loaded,
                   le_resolved, lm_records, lm_loaded, lm_pc, runVars, mapVars,
                   pathVars, topkVars, rerankVars, storeVars, buildVars>>

\* _persist_embeddings, line 74: np.save writes the matrix, one row per
\* skill.
SaveEmbeddings ==
    /\ pe_pc = "metadata_written"
    /\ skills_embeddings_npy' =
            Some([i \in 1..Len(pe_skills) |-> SkillEmbedding(pe_skills[i])])
    /\ pe_pc' = "saved"
    /\ UNCHANGED <<pe_skills, pe_run, skills_metadata_jsonl, le_loaded,
                   le_resolved, lm_records, lm_loaded, lm_pc, runVars, mapVars,
                   pathVars, topkVars, rerankVars, storeVars, buildVars>>

\* The run ends between the two writes (np.save raises, or the process is
\* stopped): the matrix file is left as it was.
SaveFails ==
    /\ pe_pc = "metadata_written"
    /\ pe_pc' = "failed"
    /\ UNCHANGED <<pe_skills, pe_run, skills_metadata_jsonl,
                   skills_embeddings_npy, le_loaded, le_resolved, lm_records,
                   lm_loaded, lm_pc, runVars, mapVars, pathVars, topkVars, rerankVars,
                   storeVars, buildVars>>

\* The skill embedding pipeline is run a second time, over the skills
\* file as it is then.
PersistAgain ==
    /\ pe_pc \in {"saved", "failed"}
    /\ pe_run = 1
    /\ pe_run' = 2
    /\ pe_skills' \in SkillLists
    /\ pe_pc' = "persist"
    /\ le_loaded' = NULL
    /\ le_resolved' = NULL
    /\ UNCHANGED <<skills_metadata_jsonl, skills_embeddings_npy, lm_records,
                   lm_loaded, lm_pc, runVars, mapVars, pathVars, topkVars, rerankVars,
                   storeVars, buildVars>>

\* load_esco_embeddings, called while no skill embedding pipeline runs:
\* FileNotFoundError if a file is absent, else the lines and the matrix as
\* they are on disk.
LoadEscoEmbeddings ==
    /\ pe_pc \in {"saved", "failed"}
    /\ le_loaded = NULL
    /\ le_loaded' =
          IF ArtifactsMissing([metadata |-> skills_metadata_jsonl # NULL,
                               embeddings |-> skills_embeddings_npy # NULL])
          THEN Some([error |-> "FileNotFoundError", metadata |-> <<>>,
                     embeddings |-> <<>>])
          ELSE Some([error |-> "None", metadata |-> skills_metadata_jsonl[1],
                     embeddings |-> skills_embeddings_npy[1]])
    /\ UNCHANGED <<pe_skills, pe_run, pe_pc, skills_metadata_jsonl,
                   skills_embeddings_npy, le_resolved, lm_records, lm_loaded,
                   lm_pc, runVars, mapVars, pathVars, topkVars, rerankVars, storeVars,
                   buildVars>>

\* _map_skills, lines 138-148: a candidate index, which ranges over the
\* rows of the matrix, is resolved to esco_metadata[index]; IndexError if
\* the list is shorter.
ResolveCandidate ==
    /\ le_loaded # NULL
    /\ le_loaded[1].error = "None"
    /\ le_resolved = NULL
    /\ \E index \in 1..Len(le_loaded[1].embeddings) :
          le_resolved' =
             IF index <= Len(le_loaded[1].metadata)
             THEN Some([index |-> index, error |-> "None",
                        metadata |-> Some(le_loaded[1].metadata[index])])
             ELSE Some([index |-> index, error |-> "IndexError",
                        metadata |-> NULL])
    /\ UNCHANGED <<pe_skills, pe_run, pe_pc, skills_metadata_jsonl,
                   skills_embeddings_npy, le_loaded, lm_records, lm_loaded,
                   lm_pc, runVars, mapVars, pathVars, topkVars, rerankVars, storeVars,
                   buildVars>>

ArtifactsNext ==
    \/ WriteMetadata
    \/ SaveEmbeddings
    \/ SaveFails
    \/ PersistAgain
    \/ LoadEscoEmbeddings
    \/ ResolveCandidate

SpecArtifacts == ArtifactsInit /\ [][ArtifactsNext]_vars

\* ------------------------------------------ whole runs of the mapping
\* The cross-encoders a run may load: one preferring taxonomy row 1, one
\* whose preference depends on the query ("flat", scoring every pair
\* alike, stands for the one that is never loaded).
ScorerKinds == {"first", "query"}

\* CrossEncoder.predict for the pair (query, text of taxonomy row index).
Scorer(kind, query, index) ==
    CASE kind = "flat"  -> 0
      [] kind = "first" -> IF index = 1 THEN 1 ELSE 0
      [] OTHER          -> IF (query = "p1") = (index = 1) THEN 1 ELSE 0

\* _map_skills, lines 131-174, for one query: the records it may append,
\* one per outcome of _top_k_indices.
RowOutcomes(skill, similarities, metadata, setts, reranker_on, scorer) ==
    IF Len(similarities) = 0
    THEN {Mapped(skill, NULL, NULL, NULL, NULL)}
    ELSE {LET found    == Candidates(similarities, candidate_indices)
              reranked == IF reranker_on /\ Len(found) > 0
                          THEN Rerank(found,
                                      [i \in 1..Len(found) |->
                                          Scorer(scorer, skill, found[i].index)])
                          ELSE <<>>
          IN  Decide(skill, Chosen(reranked, found), metadata,
                     setts.min_similarity) :
            candidate_indices \in
                TopKOutcomes(similarities, Max(1, setts.rerank_top_k))}

\* _map_skills: the result lists it may return, one record per query in
\* the order of course_skills.
MapSkills(skills, skill_embeddings, metadata, taxonomy, setts, reranker_on, scorer) ==
    LET matrix == SimilarityMatrix(skill_embeddings, taxonomy)
        upto[n \in 0..Len(skills)] ==
            IF n = 0 THEN {<<>>}
            ELSE {Append(res, mapped) :
                    res \in upto[n - 1],
                    mapped \in RowOutcomes(skills[n], matrix[n], metadata,
                                           setts, reranker_on, scorer)}
    IN  upto[Len(skills)]

\* Lines 57-62 and 105-109: the records and the persistence calls made
\* for a result list.
Persisted(mapped_results) ==
    [records |-> Records(mapped_results),
     calls |-> <<[call |-> "_write_to_disk", records |-> Records(mapped_results)],
                 [call |-> "initialize", records |-> <<>>],
                 [call |-> "insert_records", records |-> Records(mapped_results)]>>]

\* CourseSkillMappingPipeline.run, constructed by the legacy script with
\* the reranker if it is enabled: what a call may produce.
run(skills, taxonomy, setts, scorer) ==
    IF Len(skills) = 0
    THEN {[records |-> <<>>, calls |-> <<>>]}
    ELSE {Persisted(res) :
            res \in MapSkills(skills, Encode(skills, EscoDim),
                              EscoMetadata(Len(taxonomy)), taxonomy, setts,
                              setts.reranker_enabled, scorer)}

\* run_embedding_phase: the tuple it returns.
EmbeddingPhase(skills, taxonomy) ==
    IF Len(skills) = 0
    THEN [course_embeddings |-> <<>>, course_skills |-> <<>>,
          esco_metadata |-> <<>>, esco_embeddings |-> <<>>]
    ELSE [course_embeddings |-> Encode(skills, EscoDim),
          course_skills |-> skills,
          esco_metadata |-> EscoMetadata(Len(taxonomy)),
          esco_embeddings |-> taxonomy]

\* run_mapping_phase on that tuple, with pipeline._reranker as main set it.
MappingPhase(phase, setts, reranker_on, scorer) ==
    IF Len(phase.course_skills) = 0
    THEN {[records |-> <<>>, calls |-> <<>>]}
    ELSE {Persisted(res) :
            res \in MapSkills(phase.course_skills, phase.course_embeddings,
                              phase.esco_metadata, phase.esco_embeddings,
                              setts, reranker_on, scorer)}

\* pipeline._reranker is left as it was constructed, None.
PhasedMain_NoReranker(skills, taxonomy, setts, scorer) ==
    MappingPhase(EmbeddingPhase(skills, taxonomy), setts, FALSE, scorer)

\* map_course_skills.main: the embedding phase, the encoder released, the
\* reranker loaded if enabled, the mapping phase.
PhasedMain(skills, taxonomy, setts, scorer) ==
    MappingPhase(EmbeddingPhase(skills, taxonomy), setts,
                 setts.reranker_enabled, scorer)

\* The file after the calls of a run: _write_to_disk rewrites it.
FileAfter(file, outcome) ==
    IF \E i \in 1..Len(outcome.calls) : outcome.calls[i].call = "_write_to_disk"
    THEN [exists |-> TRUE, records |-> outcome.records]
    ELSE file

\* The table after the calls of a run: insert_records adds a row per
\* record unless MySQL is disabled or there is no record.
RowsAfter(rows, outcome, setts) ==
    IF /\ \E i \in 1..Len(outcome.calls) : outcome.calls[i].call = "insert_records"
       /\ setts.mysql_enabled
       /\ Len(outcome.records) > 0
    THEN rows \o outcome.records
    ELSE rows

\* The artifacts (a matrix of distinct rows) and the catalog are on disk,
\* the encoder has the dimension of the matrix, nothing has been written
\* yet.
RunsInit ==
    /\ MapIdle
    /\ PathIdle
    /\ TopKIdle
    /\ RerankIdle
    /\ StoreIdle
    /\ BuildIdle
    /\ lm_records = <<>>
    /\ lm_loaded = NULL
    /\ lm_pc = "idle"
    /\ pe_skills = <<>>
    /\ pe_run = 0
    /\ pe_pc = "idle"
    /\ skills_metadata_jsonl = NULL
    /\ skills_embeddings_npy = NULL
    /\ le_loaded = NULL
    /\ le_resolved = NULL
    /\ rn_course_skills \in SeqUpTo(Payloads, MaxQueries)
    /\ rn_esco_embeddings \in
          {rows \in SeqUpTo(TaxonomyVectors, MaxTaxonomy) :
              \A i, j \in 1..Len(rows) : i # j => rows[i] # rows[j]}
    /\ rn_settings \in [min_similarity : MinSimilarityValues,
                        rerank_top_k : RerankTopKValues,
                        reranker_enabled : BOOLEAN,
                        mysql_enabled : BOOLEAN]
    /\ rn_scorer \in IF rn_settings.reranker_enabled THEN ScorerKinds ELSE {"flat"}
    /\ rn_mapping_file = [exists |-> FALSE, records |-> <<>>]
    /\ rn_mysql_rows = <<>>
    /\ rn_runs = 0
    /\ rn_last = NULL
    /\ rn_first = NULL
    /\ rn_permuted = NULL

\* A run that ends with the given outcome.
EndRun(entry, outcome) ==
    /\ rn_mapping_file' = FileAfter(rn_mapping_file, outcome)
    /\ rn_mysql_rows' = RowsAfter(rn_mysql_rows, outcome, rn_settings)
    /\ rn_runs' = rn_runs + 1
    /\ rn_last' = Some([entry |-> entry, records |-> outcome.records,
                        calls |-> outcome.calls])
    /\ rn_first' = IF rn_runs = 0
                   THEN Some([mapping_file |-> rn_mapping_file',
                              mysql_rows |-> rn_mysql_rows'])
                   ELSE rn_first
    /\ UNCHANGED <<rn_course_skills, rn_esco_embeddings, rn_settings,
                   rn_scorer, rn_permuted, lm_records, lm_loaded, lm_pc,
                   artifactVars, mapVars, pathVars, topkVars, rerankVars,
                   storeVars, buildVars>>

\* scripts/map_course_skills.py of services/data_factory is run, for the
\* first time or again.
RunPhased ==
    /\ rn_runs < 2
    /\ rn_last # NULL => rn_last[1].entry = "phased"
    /\ rn_permuted = NULL
    /\ \E outcome \in PhasedMain(rn_course_skills, rn_esco_embeddings,
                                  rn_settings, rn_scorer) :
          EndRun("phased", outcome)

\* The legacy scripts/map_course_skills.py is run, for the first time or
\* again.
RunLegacy ==
    /\ rn_runs < 2
    /\ rn_last # NULL => rn_last[1].entry = "legacy"
    /\ rn_permuted = NULL
    /\ \E outcome \in run(rn_course_skills, rn_esco_embeddings, rn_settings,
                           rn_scorer) :
          EndRun("legacy", outcome)

\* _map_skills is called with the same queries in another order, their
\* embeddings in that order too.
MapPermuted ==
    /\ rn_runs = 0
    /\ rn_permuted = NULL
    /\ \E order \in Permutations(1..Len(rn_course_skills)) :
          LET skills == [i \in 1..Len(rn_course_skills) |->
                            rn_course_skills[order[i]]]
          IN  \E res \in MapSkills(skills, Encode(skills, EscoDim),
                                   EscoMetadata(Len(rn_esco_embeddings)),
                                   rn_esco_embeddings, rn_settings,
                                   rn_settings.reranker_enabled, rn_scorer) :
                 rn_permuted' = Some([order |-> order, results |-> res])
    /\ UNCHANGED <<rn_course_skills, rn_esco_embeddings, rn_settings,
                   rn_scorer, rn_mapping_file, rn_mysql_rows, rn_runs,
                   rn_last, rn_first, lm_records, lm_loaded, lm_pc,
                   artifactVars, mapVars, pathVars, topkVars, rerankVars,
                   storeVars, buildVars>>

RunsNext ==
    \/ RunPhased
    \/ RunLegacy
    \/ MapPermuted

SpecRuns == RunsInit /\ [][RunsNext]_vars

\* ------------------------------------------------- the mapping run: claims
\* The positions of main inside run_mapping_phase.
MappingPositions == {"loop", "rerank", "decide", "write", "mysql"}

\* The taxonomy row a resolved skill id names.
RowOf(skill_id) == skill_id[2]

\* The last record of results was appended by the threshold test, and
\* candidates / reranked_candidates still hold what that test read.
LastDecided ==
    /\ pc \in {"loop", "write", "mysql", "done"}
    /\ Len(results) > 0
    /\ Len(esco_embeddings) > 0

\* The final ordering of the last decided query.
FinalOrdering == IF reranker # "None" THEN reranked_candidates ELSE candidates

\* C1: every record of _map_skills, with or without a reranker, has a
\* non-null esco_skill_id only if its similarity_score is set, is the raw
\* cosine similarity of the resolved taxonomy row for that query, and is
\* >= mapping.min_similarity.
C1_MappedOnlyAtOrAboveThreshold ==
    \A i \in 1..Len(results) :
        results[i].esco_skill_id # NULL =>
            /\ results[i].similarity_score # NULL
            /\ results[i].similarity_score[1] >= settings.min_similarity
            /\ results[i].similarity_score[1] =
                   similarity_matrix[i][RowOf(results[i].esco_skill_id)]

\* A finished run with a reranker that mapped one skill and rejected another.
C1_Witness ==
    /\ pc = "done"
    /\ reranker = "RerankerService"
    /\ \E i \in 1..Len(results) : results[i].esco_skill_id # NULL
    /\ \E i \in 1..Len(results) :
          /\ results[i].esco_skill_id = NULL
          /\ results[i].similarity_score # NULL

\* C2: the candidate a decision accepts or rejects is the first element of
\* the final ordering (the reranked list with a reranker, else the raw top-K
\* list); the threshold test reads that candidate's raw cosine similarity,
\* not its rerank_score; the record's similarity_score is that raw value.
C2_FirstOfFinalOrderingGatedOnRawSimilarity ==
    LastDecided =>
        LET first == FinalOrdering[1]
            r     == results[Len(results)]
        IN  /\ Len(FinalOrdering) > 0
            /\ first.similarity = similarity_matrix[Len(results)][first.index]
            /\ r.similarity_score = Some(first.similarity)
            /\ (r.esco_skill_id # NULL) <=> (first.similarity >= settings.min_similarity)
            /\ r.esco_skill_id # NULL =>
                   r.esco_skill_id = esco_metadata[first.index].skill_id

\* The reranker moved another candidate to the front, gave it the top
\* rerank score, and it was still rejected on its raw similarity.
C2_Witness ==
    /\ LastDecided
    /\ reranker = "RerankerService"
    /\ Len(reranked_candidates) = 2
    /\ reranked_candidates[1].index # candidates[1].index
    /\ reranked_candidates[1].rerank_score > reranked_candidates[2].rerank_score
    /\ reranked_candidates[1].similarity < settings.min_similarity
    /\ candidates[1].similarity >= settings.min_similarity
    /\ results[Len(results)].esco_skill_id = NULL

\* C3: a record whose chosen candidate is below min_similarity has
\* esco_skill_id, esco_preferred_label and esco_description null and keeps
\* the raw similarity as similarity_score, also in the written record; a
\* null similarity_score occurs only with an empty taxonomy.
C3_RejectedKeepsSimilarity ==
    /\ \A i \in 1..Len(results) :
          /\ results[i].similarity_score = NULL => Len(esco_embeddings) = 0
          /\ results[i].similarity_score # NULL
               /\ results[i].similarity_score[1] < settings.min_similarity
             => /\ results[i].esco_skill_id = NULL
                /\ results[i].esco_preferred_label = NULL
                /\ results[i].esco_description = NULL
    /\ LastDecided /\ FinalOrdering[1].similarity < settings.min_similarity
       => results[Len(results)] =
              Mapped(course_skills[Len(results)], NULL, NULL, NULL,
                     Some(FinalOrdering[1].similarity))
    /\ mapping_file.exists =>
          /\ Len(mapping_file.records) = Len(results)
          /\ \A i \in 1..Len(results) :
                /\ mapping_file.records[i].similarity_score = results[i].similarity_score
                /\ mapping_file.records[i].esco_skill_id = results[i].esco_skill_id
                /\ mapping_file.records[i].esco_preferred_label = results[i].esco_preferred_label
                /\ mapping_file.records[i].esco_description = results[i].esco_description

\* A written record of a rejected skill that carries its similarity.
C3_Witness ==
    /\ pc = "done"
    /\ mapping_file.exists
    /\ \E i \in 1..Len(mapping_file.records) :
          /\ mapping_file.records[i].esco_skill_id = NULL
          /\ mapping_file.records[i].similarity_score # NULL
          /\ mapping_file.records[i].similarity_score[1] < settings.min_similarity

\* C4: the reranker is loaded only once run_embedding_phase has returned and
\* the encoder has been released; the two models are never loaded together.
C4_RerankerLoadedAfterEncoderReleased ==
    /\ ~(encoder_loaded /\ reranker # "None")
    /\ reranker # "None" =>
          pc \notin {"start", "embedding_phase", "cleanup", "load_reranker"}
    /\ pc \in {"start", "embedding_phase", "cleanup", "load_reranker"} =>
          reranker = "None"
    /\ pc \in MappingPositions \cup {"mapping_phase", "done"} => ~encoder_loaded

\* The reranker is resident and scoring, the encoder gone.
C4_Witness ==
    /\ pc = "rerank"
    /\ reranker = "RerankerService"
    /\ ~encoder_loaded

\* Phase 1 failed: the encoder did not load, an artifact was missing,
\* encoding raised, or the embeddings produced do not have the taxonomy
\* matrix's dimension.
Phase1Failed ==
    \/ failure \in {"EncoderLoadError", "FileNotFoundError", "EncodeError"}
    \/ /\ Len(course_embeddings) > 0
       /\ Len(course_embeddings[1]) # EscoDim

\* C5: after a Phase 1 failure, a dimension mismatch included, the reranker
\* is never constructed and run_mapping_phase is never entered.
C5_Phase1FailureAbortsBeforePhase2 ==
    Phase1Failed =>
        /\ reranker = "None"
        /\ pc \notin MappingPositions \cup {"mapping_phase", "done"}
        /\ failure # "ValueError"

\* C6 as amended: the encoder is released before any reranking or decision;
\* within the mapping loop reranking and deciding alternate per query, the
\* reranking of a query completing before that query's decision; every
\* decision is made before the mapping output is written or inserted.
C6_PerQueryRerankThenDecideThenPersist ==
    /\ rerank_calls > 0 \/ Len(results) > 0 => ~encoder_loaded
    /\ reranker # "None" /\ Len(esco_embeddings) > 0 =>
          /\ pc \in {"loop", "rerank"} => rerank_calls = Len(results)
          /\ pc = "decide" => rerank_calls = Len(results) + 1
          /\ pc \in {"write", "mysql", "done"} => rerank_calls = Len(course_skills)
    /\ reranker = "None" => rerank_calls = 0
    /\ mapping_file.exists \/ Len(mysql_rows) > 0 =>
          /\ Len(results) = Len(course_skills)
          /\ pc \in {"mysql", "done"}
    /\ Len(mysql_rows) > 0 => mapping_file.exists

\* The second query has been reranked after the first was decided.
C6_Witness ==
    /\ pc = "decide"
    /\ Len(results) = 1
    /\ rerank_calls = 2

\* C6 as stated: once a decision has been made for any query, every query
\* has been reranked.
C6_AllRerankedBeforeAnyDecision ==
    reranker # "None" /\ Len(esco_embeddings) > 0 /\ Len(results) > 0 =>
        rerank_calls = Len(course_skills)

\* C7: a reranker call that raises does not abort the run.
C7_ScorerFailureDoesNotAbort ==
    failure = "ScorerError" => pc # "aborted"

\* --------------------------------------------- recommend_courses: claims
\* The course dicts carry their skills (after _enrich_courses_with_skills).
Enriched == rpc \in {"build", "while", "for", "limit", "done"}

\* _create_learning_path has returned.
PathReturned == rpc \in {"limit", "done"}

\* Course a requires a skill that course b teaches.
RequiresFrom(a, b) ==
    /\ a # b
    /\ \E s \in courses[a].required_skills : s \in courses[b].taught_skills

\* Course a requires a skill that b teaches and no other course teaches.
RequiresOnlyFrom(a, b) ==
    /\ a # b
    /\ \E s \in courses[a].required_skills :
          /\ s \in courses[b].taught_skills
          /\ \A c \in CourseIds(courses) \ {b} : s \notin courses[c].taught_skills

\* The courses the peeling loop dequeued: sorted_order without the
\* remaining bucket appended at its end.
Levelled == SubSeq(sorted_order, 1, Len(sorted_order) - Len(remaining))

PrerequisiteLevel(a) == courses[a].prerequisite_level

\* C8 as amended: after _create_learning_path, if A requires a skill taught
\* by B, B requires no skill taught by A, and A was dequeued by the peeling
\* loop (A is not in the remaining bucket), then
\* prerequisite_level(A) > prerequisite_level(B).
C8_LevelMonotoneForLevelledCourses ==
    PathReturned =>
        \A a, b \in CourseIds(courses) :
            RequiresFrom(a, b) /\ ~RequiresFrom(b, a) /\ InList(a, Levelled)
            => /\ InList(b, Levelled)
               /\ PrerequisiteLevel(a) > PrerequisiteLevel(b)

\* A chain of three courses levelled 0, 1, 2.
C8_Witness ==
    /\ rpc = "done"
    /\ \E a, b, c \in CourseIds(courses) :
          /\ RequiresFrom(a, b) /\ ~RequiresFrom(b, a)
          /\ RequiresFrom(b, c) /\ ~RequiresFrom(c, b)
          /\ InList(a, Levelled)
          /\ PrerequisiteLevel(a) = 2
          /\ PrerequisiteLevel(b) = 1
          /\ PrerequisiteLevel(c) = 0

\* C8 as stated: whatever the rest of the dependency graph, if A requires a
\* skill taught by B and B requires no skill taught by A, then after the
\* call prerequisite_level(A) > prerequisite_level(B).
C8_LevelMonotoneForEveryGraph ==
    PathReturned =>
        \A a, b \in CourseIds(courses) :
            RequiresFrom(a, b) /\ ~RequiresFrom(b, a)
            => PrerequisiteLevel(a) > PrerequisiteLevel(b)

\* C9: in the learning_path that recommend_courses returns, of two courses
\* with different prerequisite_level the one with the lower level comes
\* first.
C9_LearningPathAscendingByLevel ==
    rpc = "done" =>
        \A i, j \in 1..Len(final_path) :
            i < j => PrerequisiteLevel(final_path[i]) <= PrerequisiteLevel(final_path[j])

\* C10: two courses each requiring a skill only the other teaches are never
\* queued or dequeued by the peeling loop; once the loop has ended both are
\* in the remaining bucket, which sits in the returned order after every
\* dequeued course.
C10_MutualCycleOnlyInRemainingBucket ==
    Enriched =>
        \A a, b \in CourseIds(courses) :
            RequiresOnlyFrom(a, b) /\ RequiresOnlyFrom(b, a)
            => /\ ~InList(a, queue) /\ ~InList(b, queue)
               /\ ~InList(a, Levelled) /\ ~InList(b, Levelled)
               /\ courses[a].prerequisite_level = 0
               /\ PathReturned =>
                     /\ InList(a, remaining) /\ InList(b, remaining)
                     /\ \A i \in 1..Len(sorted_order) :
                           sorted_order[i] \in {a, b} => i > Len(Levelled)
                     /\ \E i, j \in 1..Len(sorted_order) :
                           sorted_order[i] = a /\ sorted_order[j] = b

\* A two-course cycle beside a course that was levelled.
C10_Witness ==
    /\ rpc = "done"
    /\ Len(Levelled) > 0
    /\ \E a, b \in CourseIds(courses) :
          /\ RequiresOnlyFrom(a, b) /\ RequiresOnlyFrom(b, a)
          /\ InList(a, remaining) /\ InList(b, remaining)

\* Some other course of the candidate set teaches a skill a requires.
HasPrerequisite(a) == \E b \in CourseIds(courses) : RequiresFrom(a, b)

\* C11: a course none of whose required skills is taught by another course
\* of the candidate set has prerequisite_level 0 from enrichment on, and
\* when _create_learning_path has returned it is among the dequeued
\* courses, whatever the other courses and its position in the list.
C11_IndependentCourseEndsAtLevelZero ==
    Enriched =>
        \A a \in CourseIds(courses) :
            ~HasPrerequisite(a)
            => /\ PrerequisiteLevel(a) = 0
               /\ PathReturned => InList(a, Levelled)

\* The last course of the list requires a skill nobody else teaches, and
\* another course was levelled above 0.
C11_Witness ==
    /\ rpc = "done"
    /\ Len(courses) = MaxCourses
    /\ courses[Len(courses)].required_skills # {}
    /\ ~HasPrerequisite(Len(courses))
    /\ PrerequisiteLevel(Len(courses)) = 0
    /\ \E b \in CourseIds(courses) : PrerequisiteLevel(b) > 0

JustBuilt == rpc = "while" /\ sorted_order = <<>>

\* How often x occurs in the list.
Occurrences(x, list) == Cardinality({i \in 1..Len(list) : list[i] = x})

\* C13: graph holds the edge B -> A exactly when A and B are different
\* courses and a skill A requires is taught by B, once per pair; the
\* in-degree of A is the number of distinct other courses A depends on,
\* however many skills overlap with each.
C13_EdgeIffRequiredMeetsTaught ==
    /\ rpc \in {"while", "for", "limit", "done"} =>
          \A a, b \in CourseIds(courses) :
              Occurrences(a, graph[b]) = (IF RequiresFrom(a, b) THEN 1 ELSE 0)
    /\ JustBuilt =>
          \A a \in CourseIds(courses) :
              in_degree[a] = Cardinality({b \in CourseIds(courses) : RequiresFrom(a, b)})

\* A requires two skills, both taught by B, and one of them by A itself:
\* one edge, in-degree 1.
C13_Witness ==
    /\ JustBuilt
    /\ \E a, b \in CourseIds(courses) :
          /\ a # b
          /\ Cardinality(courses[a].required_skills \cap courses[b].taught_skills) = 2
          /\ courses[a].required_skills \cap courses[a].taught_skills # {}
          /\ in_degree[a] = 1
          /\ graph[b] = <<a>>
          /\ graph[a] = <<>>

\* ------------------------------------------------- _top_k_indices: claims
\* Index t of the score vector is among the returned indices.
Returned(t) == \E i \in 1..Len(tk_indices) : tk_indices[i] = t

\* The score of the i-th returned index.
ReturnedScore(i) == tk_scores[tk_indices[i]]

\* C14 as amended: for every score vector of length n >= 0 and every
\* k >= 1 the call returns exactly min(k, n) indices of the vector, none
\* repeated, whose scores never increase along the result, and every
\* returned score is >= every score not returned.
C14_TopKDescendingAndMaximal ==
    tk_pc = "returned" =>
        /\ Len(tk_indices) = Min(tk_k, Len(tk_scores))
        /\ \A i \in 1..Len(tk_indices) : tk_indices[i] \in 1..Len(tk_scores)
        /\ \A i, j \in 1..Len(tk_indices) : i # j => tk_indices[i] # tk_indices[j]
        /\ \A i, j \in 1..Len(tk_indices) :
              i < j => ReturnedScore(i) >= ReturnedScore(j)
        /\ \A i \in 1..Len(tk_indices) : \A t \in 1..Len(tk_scores) :
              ~Returned(t) => ReturnedScore(i) >= tk_scores[t]

\* k cuts the vector, two returned scores are equal and a third is lower.
C14_Witness ==
    /\ tk_pc = "returned"
    /\ tk_k = 3
    /\ Len(tk_scores) > tk_k
    /\ ReturnedScore(1) = ReturnedScore(2)
    /\ ReturnedScore(2) > ReturnedScore(3)

\* C14 as stated: exactly min(k, n) indices, none repeated, with strictly
\* descending scores, every returned score >= every score not returned.
C14_TopKStrictlyDescending ==
    tk_pc = "returned" =>
        /\ Len(tk_indices) = Min(tk_k, Len(tk_scores))
        /\ \A i, j \in 1..Len(tk_indices) : i # j => tk_indices[i] # tk_indices[j]
        /\ \A i, j \in 1..Len(tk_indices) :
              i < j => ReturnedScore(i) > ReturnedScore(j)
        /\ \A i \in 1..Len(tk_indices) : \A t \in 1..Len(tk_scores) :
              ~Returned(t) => ReturnedScore(i) >= tk_scores[t]

\* C15: entries of equal score are returned in ascending index order, and
\* of the entries whose score equals a returned one, those of lower index
\* are the ones returned, for k = 1 and for k > 1.
C15_TiesByAscendingIndex ==
    tk_pc = "returned" =>
        /\ \A i, j \in 1..Len(tk_indices) :
              i < j /\ ReturnedScore(i) = ReturnedScore(j)
              => tk_indices[i] < tk_indices[j]
        /\ \A i \in 1..Len(tk_indices) : \A t \in 1..Len(tk_scores) :
              ~Returned(t) /\ tk_scores[t] = ReturnedScore(i) => t > tk_indices[i]

\* ----------------------------------------- RerankerService.rerank: claims
\* The score of the candidate's own (query, text) pair.
OwnScore(candidate) == rr_scorer[EscoText(candidate.index)]

\* Where the candidate of taxonomy index x stands in the input list.
InputPosition(x) == CHOOSE i \in 1..Len(rr_candidates) : rr_candidates[i].index = x

\* The input positions ordered by own score, highest first, equal scores
\* in input order: determined by the candidate list and the scorer alone.
OrderByOwnScore ==
    LET before(j, i) ==
            \/ OwnScore(rr_candidates[j]) > OwnScore(rr_candidates[i])
            \/ /\ OwnScore(rr_candidates[j]) = OwnScore(rr_candidates[i])
               /\ j < i
        place(i) == 1 + Cardinality({j \in 1..Len(rr_candidates) : before(j, i)})
    IN  [r \in 1..Len(rr_candidates) |->
            CHOOSE i \in 1..Len(rr_candidates) : place(i) = r]

\* C16: whatever batch size is configured (below 1, 1, 2, or more than the
\* list holds), every returned candidate carries the score of its own
\* (query, text) pair and the returned ordering is the one the candidate
\* list and the scorer determine, so any two batch sizes give the same
\* ordering.
C16_OrderingIndependentOfBatchSize ==
    rr_pc = "returned" =>
        /\ Len(rr_reranked) = Len(rr_candidates)
        /\ \A r \in 1..Len(rr_reranked) :
              /\ rr_reranked[r].rerank_score = OwnScore(rr_reranked[r])
              /\ rr_reranked[r].index = rr_candidates[OrderByOwnScore[r]].index

\* Three candidates scored in batches of two: the last one, scored alone in
\* the second batch, is returned first.
C16_Witness ==
    /\ rr_pc = "returned"
    /\ rr_batch_size = 2
    /\ Len(rr_candidates) = 3
    /\ OwnScore(rr_candidates[3]) > OwnScore(rr_candidates[1])
    /\ OwnScore(rr_candidates[1]) = OwnScore(rr_candidates[2])
    /\ rr_reranked[1].index = rr_candidates[3].index

\* C17: the returned list is a permutation of the input candidates (each
\* with its index and similarity), in descending rerank_score, equal
\* scores in their input order; the input list still holds the candidates
\* the pairs were built from, in the same order.
C17_StableDescendingPermutation ==
    rr_pc = "returned" =>
        /\ Len(rr_reranked) = Len(rr_candidates)
        /\ \A i \in 1..Len(rr_candidates) :
              Cardinality({r \in 1..Len(rr_reranked) :
                  /\ rr_reranked[r].index = rr_candidates[i].index
                  /\ rr_reranked[r].similarity = rr_candidates[i].similarity}) = 1
        /\ \A r, s \in 1..Len(rr_reranked) :
              r < s =>
                 /\ rr_reranked[r].rerank_score >= rr_reranked[s].rerank_score
                 /\ rr_reranked[r].rerank_score = rr_reranked[s].rerank_score
                    => InputPosition(rr_reranked[r].index)
                         < InputPosition(rr_reranked[s].index)
        /\ Len(rr_candidates) > 0 =>
              rr_pairs = [i \in 1..Len(rr_candidates) |->
                             EscoText(rr_candidates[i].index)]

\* Three candidates, the first and the last with equal score above the
\* middle one: the first stays ahead of the last.
C17_Witness ==
    /\ rr_pc = "returned"
    /\ Len(rr_candidates) = 3
    /\ rr_reranked[1].rerank_score = rr_reranked[2].rerank_score
    /\ rr_reranked[2].rerank_score > rr_reranked[3].rerank_score
    /\ rr_reranked[1].index = rr_candidates[1].index
    /\ rr_reranked[2].index = rr_candidates[3].index
    /\ rr_reranked[3].index = rr_candidates[2].index

\* ------------------------------------------------------ Neo4jService: claims
\* The batch_merge_* operations of the current run that have returned.
OperationsDone ==
    CASE gb_pc = "broader"  -> {"skills"}
      [] gb_pc = "courses"  -> {"skills", "broader"}
      [] gb_pc = "teaches"  -> {"skills", "broader", "courses"}
      [] gb_pc = "requires" -> {"skills", "broader", "courses", "teaches"}
      [] gb_pc \in {"close", "done"} ->
            IF gb_mappings_file.exists THEN MergeKinds ELSE {"skills", "broader"}
      [] OTHER -> {}

\* C18: graph-store writes are idempotent. Once a batch_merge_* operation
\* of the build has been applied, applying it again with the same rows
\* leaves the graph (nodes, edges and all their properties) as it is; and
\* when the whole build has run twice over the same inputs, the graph at
\* the end of the second run is the graph at the end of the first.
C18_MergeAndBuildIdempotent ==
    /\ \A kind \in OperationsDone :
          MergeBatches(neo4j_graph, kind,
                       Batches(RowsToMerge(kind), gb_batch_size)) = neo4j_graph
    /\ (gb_run = 2 /\ gb_pc = "done" /\ gb_first # NULL)
          => neo4j_graph = gb_first[1]

\* The build has completed twice without clearing the graph, and the
\* graph holds a TEACHES edge.
C18_Witness ==
    /\ gb_run = 2
    /\ gb_pc = "done"
    /\ gb_first # NULL
    /\ ~gb_clear_existing
    /\ Len(neo4j_graph.skills) > 0
    /\ Len(neo4j_graph.courses) > 0
    /\ Len(neo4j_graph.teaches) > 0

\* C19: after any sequence of merge operations the graph holds at most
\* one Course node per course_id, at most one Skill node per skill_id, at
\* most one TEACHES and one REQUIRES edge per (course_id, skill_id); and
\* after a merge, what the graph stores under a key of the batch is the
\* last row of the batch with that key (for an edge: when both its nodes
\* exist), so a row whose key existed has overwritten the properties.
C19_OnePerKeyLastWriteWins ==
    LET g == neo4j_graph
        b == st_last.batch
    IN  /\ \A i, j \in 1..Len(g.courses) :
              g.courses[i].course_id = g.courses[j].course_id => i = j
        /\ \A i, j \in 1..Len(g.skills) :
              g.skills[i].skill_id = g.skills[j].skill_id => i = j
        /\ \A i, j \in 1..Len(g.teaches) : SamePair(g.teaches[i], g.teaches[j]) => i = j
        /\ \A i, j \in 1..Len(g.requires) : SamePair(g.requires[i], g.requires[j]) => i = j
        /\ st_last.kind = "courses" =>
              \A i \in 1..Len(b) :
                  (\A j \in (i + 1)..Len(b) : b[j].course_id # b[i].course_id)
                     => \E n \in 1..Len(g.courses) : g.courses[n] = b[i]
        /\ st_last.kind = "skills" =>
              \A i \in 1..Len(b) :
                  (\A j \in (i + 1)..Len(b) : b[j].skill_id # b[i].skill_id)
                     => \E n \in 1..Len(g.skills) : g.skills[n] = b[i]
        /\ st_last.kind = "teaches" =>
              \A i \in 1..Len(b) :
                  (/\ \A j \in (i + 1)..Len(b) : ~SamePair(b[j], b[i])
                   /\ HasCourse(g, b[i].course_id)
                   /\ HasSkill(g, b[i].skill_id))
                     => \E n \in 1..Len(g.teaches) : g.teaches[n] = b[i]
        /\ st_last.kind = "requires" =>
              \A i \in 1..Len(b) :
                  (/\ \A j \in (i + 1)..Len(b) : ~SamePair(b[j], b[i])
                   /\ HasCourse(g, b[i].course_id)
                   /\ HasSkill(g, b[i].skill_id))
                     => \E n \in 1..Len(g.requires) : g.requires[n] = b[i]

\* A TEACHES batch named the same course and skill twice with different
\* scores: one edge is stored and it carries the second score.
C19_Witness ==
    /\ st_last.kind = "teaches"
    /\ Len(st_last.batch) = 2
    /\ SamePair(st_last.batch[1], st_last.batch[2])
    /\ st_last.batch[1].similarity_score # st_last.batch[2].similarity_score
    /\ neo4j_graph.teaches = <<st_last.batch[2]>>

\* C20: when a batch merge fails, the batch has been tried more than once
\* before the run gives up, and the failure that ends the run names the
\* boundary of the failing batch, the number of rows committed before it.
C20_FailedBatchRetriedAndBoundarySurfaced ==
    gb_pc = "failed" =>
        /\ gb_attempts > 1
        /\ gb_failure.boundary = Some(gb_sent)

\* -------------------------------------------- the mapping run: more claims
\* C21: if skills_metadata.jsonl or skills_embeddings.npy is absent, the
\* mapping run gets no further than run_embedding_phase and ends there with
\* FileNotFoundError (unless the encoder failed to load before): no course
\* skill is loaded or encoded, no reranker is loaded, no mapping file is
\* written and no row is inserted.
C21_MissingArtifactAbortsBeforeProcessing ==
    (~esco_artifacts.metadata \/ ~esco_artifacts.embeddings) =>
        /\ pc \in {"start", "embedding_phase", "aborted"}
        /\ pc = "aborted" => failure \in {"EncoderLoadError", "FileNotFoundError"}
        /\ (pc = "aborted" /\ encoder_loaded) => failure = "FileNotFoundError"
        /\ course_skills = <<>>
        /\ course_embeddings = <<>>
        /\ esco_metadata = <<>>
        /\ reranker = "None"
        /\ ~mapping_file.exists
        /\ mysql_rows = <<>>

\* The metadata file is there, the matrix is not, and the run has ended in
\* FileNotFoundError.
C21_Witness ==
    /\ esco_artifacts.metadata
    /\ ~esco_artifacts.embeddings
    /\ pc = "aborted"
    /\ failure = "FileNotFoundError"

\* C25: every query yields exactly one output record, in input order, and
\* none is dropped.  Once the queries are loaded and the run has ended,
\* normally or by the failure of the scorer on one query (the per-query
\* error the output has to record), the mapping file holds one record per
\* query, the i-th record carrying the i-th query.
C25_EveryQueryHasOneOutputRecord ==
    (/\ Len(course_skills) > 0
     /\ \/ pc = "done"
        \/ pc = "aborted" /\ failure = "ScorerError")
    => /\ mapping_file.exists
       /\ Len(mapping_file.records) = Len(course_skills)
       /\ \A i \in 1..Len(course_skills) :
             mapping_file.records[i].payload = course_skills[i]

\* --------------------------------------- recommend_courses: more claims
\* Where course a stands in sorted_order (0 if it does not).
OrderPosition(a) ==
    IF InList(a, sorted_order)
    THEN CHOOSE i \in 1..Len(sorted_order) : sorted_order[i] = a
    ELSE 0

\* The highest prerequisite_level among the courses a depends on.
MaxDependencyLevel(a) ==
    CHOOSE l \in 0..Len(courses) :
        /\ \E b \in CourseIds(courses) : RequiresFrom(a, b) /\ PrerequisiteLevel(b) = l
        /\ \A b \in CourseIds(courses) : RequiresFrom(a, b) => PrerequisiteLevel(b) <= l

\* C26: at every point of the levelling loop and after it, a dequeued
\* course stands in sorted_order behind every course it depends on, all of
\* them dequeued, and if it has a dependency its prerequisite_level is
\* 1 + the highest prerequisite_level of the courses it depends on; a
\* course waiting in the queue for the next round has all its
\* dependencies dequeued already.
C26_LevelIsOnePlusMaxDependencyLevel ==
    rpc \in {"while", "for", "limit", "done"} =>
        /\ \A a \in CourseIds(courses) :
              InList(a, Levelled) =>
                 /\ \A b \in CourseIds(courses) :
                       RequiresFrom(a, b) =>
                          /\ InList(b, Levelled)
                          /\ OrderPosition(b) < OrderPosition(a)
                 /\ HasPrerequisite(a) =>
                       PrerequisiteLevel(a) = 1 + MaxDependencyLevel(a)
        /\ \A i \in 1..Len(queue) : \A b \in CourseIds(courses) :
              RequiresFrom(queue[i], b) => InList(b, Levelled)

\* A course depending on a level-0 course and on a level-1 course ends at
\* level 2.
C26_Witness ==
    /\ rpc = "done"
    /\ \E a, b, c \in CourseIds(courses) :
          /\ RequiresFrom(a, b) /\ RequiresFrom(a, c) /\ RequiresFrom(b, c)
          /\ PrerequisiteLevel(c) = 0
          /\ PrerequisiteLevel(b) = 1
          /\ PrerequisiteLevel(a) = 2

\* What holds of _create_learning_path in every state: no in-degree is
\* negative, and once it has returned every course id occurs exactly once
\* in the returned list, the dequeued courses first and the remaining
\* bucket behind them.
EveryCourseOnce ==
    /\ \A a \in DOMAIN in_degree : in_degree[a] >= 0
    /\ PathReturned =>
          /\ Len(sorted_order) = Len(courses)
          /\ \A a \in CourseIds(courses) : Occurrences(a, sorted_order) = 1
          /\ SubSeq(sorted_order, Len(Levelled) + 1, Len(sorted_order)) = remaining
          /\ \A a \in CourseIds(courses) : InList(a, remaining) <=> in_degree[a] > 0

\* C27: for every list of up to MaxCourses courses with distinct ids,
\* cyclic or not, the call terminates, no in-degree ever becomes negative,
\* and the returned list holds every course id exactly once, levelled
\* courses first, then the remaining bucket.
C27_TerminatesWithEveryCourseOnce ==
    /\ <>(rpc = "done")
    /\ []EveryCourseOnce

\* A returned list with a levelled course and a two-course cycle behind
\* it.
C27_Witness ==
    /\ rpc = "done"
    /\ Len(courses) = 3
    /\ Len(Levelled) = 1
    /\ Len(remaining) = 2
    /\ \E a, b \in CourseIds(courses) : RequiresFrom(a, b) /\ RequiresFrom(b, a)

\* --------------------------------------------- load_course_mappings: claims
\* The positions of the records of the given skill type that carry a
\* non-empty taxonomy id and a course id.
EdgeRecords(skill_type) ==
    {i \in 1..Len(lm_records) :
        /\ lm_records[i].skill_type = skill_type
        /\ lm_records[i].esco_skill_id \notin {NULL, Some("")}
        /\ lm_records[i].course_id # NULL}

\* The edges of a list are those of the records at the given positions,
\* one edge per record.
EdgesAreOf(edges, positions) ==
    /\ Len(edges) = Cardinality(positions)
    /\ \A n \in 1..Len(edges) :
            \E i \in positions :
                /\ edges[n].course_id = lm_records[i].course_id[1]
                /\ edges[n].skill_id = lm_records[i].esco_skill_id[1]
                /\ edges[n].skill_id # ""
    /\ \A i \in positions :
            \E n \in 1..Len(edges) :
                /\ edges[n].course_id = lm_records[i].course_id[1]
                /\ edges[n].skill_id = lm_records[i].esco_skill_id[1]

\* C24: load_course_mappings emits a TEACHES edge only for an outcome
\* record with a non-empty esco_skill_id and a REQUIRES edge only for
\* an entry record with a non-empty esco_skill_id, so a record the
\* threshold test left unmapped yields no edge, while the course of any
\* record yields exactly one CourseNode, taken from the first record of
\* that course.
C24_EdgesOnlyForMappedSkillsOneNodePerCourse ==
    lm_pc = "returned" =>
        LET loaded == lm_loaded[1]
        IN  /\ EdgesAreOf(loaded.teaches_edges, EdgeRecords("outcome"))
            /\ EdgesAreOf(loaded.requires_edges, EdgeRecords("entry"))
            /\ \A i \in 1..Len(lm_records) :
                    lm_records[i].course_id # NULL =>
                        /\ Cardinality({n \in 1..Len(loaded.courses) :
                                loaded.courses[n].course_id = lm_records[i].course_id[1]}) = 1
                        /\ \A n \in 1..Len(loaded.courses) :
                                loaded.courses[n].course_id = lm_records[i].course_id[1] =>
                                    \E j \in 1..i :
                                        /\ lm_records[j].course_id = lm_records[i].course_id
                                        /\ \A k \in 1..(j - 1) :
                                                lm_records[k].course_id # lm_records[i].course_id
                                        /\ loaded.courses[n].course_title = lm_records[j].course_title
            /\ Len(loaded.courses) =
                    Cardinality({lm_records[i].course_id : i \in 1..Len(lm_records)} \ {NULL})

\* Two records of one course with different titles, the first one left
\* unmapped and the second one mapped, have been loaded.
C24_Witness ==
    /\ lm_pc = "returned"
    /\ Len(lm_records) = 2
    /\ lm_records[1].course_id = Some("c1")
    /\ lm_records[2].course_id = Some("c1")
    /\ lm_records[1].course_title # lm_records[2].course_title
    /\ lm_records[1].esco_skill_id = NULL
    /\ lm_records[2].esco_skill_id = Some("s1")
    /\ lm_records[2].skill_type = "outcome"
    /\ Len(lm_loaded[1].teaches_edges) = 1
    /\ Len(lm_loaded[1].courses) = 1

\* ------------------------------------------- GraphBuildPipeline: more claims
\* Every row of the list has its Skill node / Course node in the graph.
SkillRowsMerged ==
    LET rows == RowsToMerge("skills")
    IN  \A i \in 1..Len(rows) : HasSkill(neo4j_graph, rows[i].skill_id)
CourseRowsMerged ==
    LET rows == RowsToMerge("courses")
    IN  \A i \in 1..Len(rows) : HasCourse(neo4j_graph, rows[i].course_id)

\* Every edge of the graph connects two nodes of the graph.
NoDanglingEdge ==
    /\ \A i \in 1..Len(neo4j_graph.broader) :
          /\ HasSkill(neo4j_graph, neo4j_graph.broader[i].child_id)
          /\ HasSkill(neo4j_graph, neo4j_graph.broader[i].parent_id)
    /\ \A i \in 1..Len(neo4j_graph.teaches) :
          /\ HasCourse(neo4j_graph, neo4j_graph.teaches[i].course_id)
          /\ HasSkill(neo4j_graph, neo4j_graph.teaches[i].skill_id)
    /\ \A i \in 1..Len(neo4j_graph.requires) :
          /\ HasCourse(neo4j_graph, neo4j_graph.requires[i].course_id)
          /\ HasSkill(neo4j_graph, neo4j_graph.requires[i].skill_id)

\* The nodes of the graph are those of the node rows and of no edge row.
OnlyNodesOfNodeRows ==
    LET skill_rows  == RowsToMerge("skills")
        course_rows == IF neo4j_graph.courses = <<>> THEN <<>>
                       ELSE RowsToMerge("courses")
    IN  /\ \A i \in 1..Len(neo4j_graph.skills) :
              \E j \in 1..Len(skill_rows) :
                  skill_rows[j].skill_id = neo4j_graph.skills[i].skill_id
        /\ \A i \in 1..Len(neo4j_graph.courses) :
              \E j \in 1..Len(course_rows) :
                  course_rows[j].course_id = neo4j_graph.courses[i].course_id

\* C29: GraphBuildPipeline.run merges all Skill nodes before any BROADER
\* edge and all Course nodes before any TEACHES or REQUIRES edge; an edge
\* row whose endpoint node does not exist when it is merged creates no
\* edge and no node and raises no error, so every edge of the graph
\* connects two nodes of the graph, in every state of the build.
C29_NodesBeforeEdgesNoDanglingEdge ==
    /\ gb_pc = "broader" => SkillRowsMerged
    /\ gb_pc \in {"teaches", "requires"} => SkillRowsMerged /\ CourseRowsMerged
    /\ (gb_run = 1 /\ gb_pc \in {"start", "skills"}) => neo4j_graph.broader = <<>>
    /\ (gb_run = 1 /\ gb_pc \in {"start", "skills", "broader", "courses"})
          => neo4j_graph.teaches = <<>> /\ neo4j_graph.requires = <<>>
    /\ NoDanglingEdge
    /\ OnlyNodesOfNodeRows
    /\ (gb_pc = "done" /\ gb_run = 1) => gb_failure = NoFailure

\* The build has completed; the skills file lacks the broader skill of
\* one of its skills and the skill a course record is mapped to, so a
\* BROADER row and a TEACHES row found no endpoint and left no edge.
C29_Witness ==
    /\ gb_pc = "done"
    /\ gb_failure = NoFailure
    /\ Len(RowsToMerge("broader")) > 0
    /\ gb_mappings_file.exists
    /\ Len(RowsToMerge("teaches")) > 0
    /\ ~HasSkill(neo4j_graph, "s1")
    /\ HasSkill(neo4j_graph, "s2")
    /\ Len(neo4j_graph.courses) > 0
    /\ neo4j_graph.broader = <<>>
    /\ neo4j_graph.teaches = <<>>

\* ------------------------------------------------ the artifacts: claims
\* Row i of a matrix belongs to the skill of metadata line i, and there
\* is one line per row.
Coupled(metadata, embeddings) ==
    /\ Len(metadata) = Len(embeddings)
    /\ \A i \in 1..Len(embeddings) :
          embeddings[i] = SkillEmbedding(metadata[i].skill_id)

\* C23: the positional coupling between taxonomy metadata and embeddings
\* is preserved from writer to reader: _persist_embeddings writes one
\* metadata line per row of the saved matrix in the same order,
\* load_esco_embeddings returns metadata[i] paired with matrix row i for
\* every i, with as many metadata entries as rows, and _map_skills
\* resolves candidate index i to metadata[i].
C23_PositionalCouplingPreserved ==
    /\ pe_pc = "saved" =>
          /\ Len(skills_metadata_jsonl[1]) = Len(pe_skills)
          /\ \A i \in 1..Len(pe_skills) :
                skills_metadata_jsonl[1][i].skill_id = pe_skills[i]
          /\ Coupled(skills_metadata_jsonl[1], skills_embeddings_npy[1])
    /\ (le_loaded # NULL /\ le_loaded[1].error = "None") =>
          Coupled(le_loaded[1].metadata, le_loaded[1].embeddings)
    /\ le_resolved # NULL =>
          /\ le_resolved[1].error = "None"
          /\ le_resolved[1].metadata[1] = le_loaded[1].metadata[le_resolved[1].index]
          /\ le_loaded[1].embeddings[le_resolved[1].index] =
                SkillEmbedding(le_resolved[1].metadata[1].skill_id)

\* ------------------------------------------------ whole runs: claims
\* What _map_skills may return for the queries in their original order,
\* and for one of them alone.
OriginalResults ==
    MapSkills(rn_course_skills, Encode(rn_course_skills, EscoDim),
              EscoMetadata(Len(rn_esco_embeddings)), rn_esco_embeddings,
              rn_settings, rn_settings.reranker_enabled, rn_scorer)
ResultsAlone(query) ==
    MapSkills(<<query>>, Encode(<<query>>, EscoDim),
              EscoMetadata(Len(rn_esco_embeddings)), rn_esco_embeddings,
              rn_settings, rn_settings.reranker_enabled, rn_scorer)

\* C22: permuting the input query list, the query embeddings permuted the
\* same way, yields the same mapping record for every query: the record
\* at position i of the permuted run is the record the original run
\* yields for that query, and it is the record the query yields when it
\* is mapped alone, so it depends on the query's own payload and
\* embedding, the taxonomy, top_k, the threshold and the scorer only.
C22_PermutationKeepsEveryQuerysRecord ==
    rn_permuted # NULL =>
        LET order == rn_permuted[1].order
            res   == rn_permuted[1].results
        IN  /\ Len(res) = Len(rn_course_skills)
            /\ \E original \in OriginalResults :
                  \A i \in 1..Len(res) : res[i] = original[order[i]]
            /\ \A original \in OriginalResults :
                  \A i \in 1..Len(res) :
                      \E alone \in ResultsAlone(rn_course_skills[order[i]]) :
                          original[order[i]] = alone[1]
            /\ \A i \in 1..Len(res) :
                  \E alone \in ResultsAlone(rn_course_skills[order[i]]) :
                      res[i] = alone[1]

\* Two different queries have been mapped in the other order with the
\* reranker on; one is mapped to a taxonomy row, the other is not.
C22_Witness ==
    /\ rn_permuted # NULL
    /\ Len(rn_course_skills) = 2
    /\ rn_course_skills[1] # rn_course_skills[2]
    /\ rn_permuted[1].order = <<2, 1>>
    /\ Len(rn_esco_embeddings) = 2
    /\ rn_settings.reranker_enabled
    /\ rn_settings.rerank_top_k = 2
    /\ rn_permuted[1].results[1].esco_skill_id # NULL
    /\ rn_permuted[1].results[2].esco_skill_id = NULL

\* C28: the memory-phased path and the legacy run(), constructed with
\* the same reranker setting, produce the same sequence of mapping
\* records and the same persistence calls for the same taxonomy and
\* course inputs: what a run of either has produced, the other can
\* produce, and when no course skills are found neither writes anything.
C28_PhasedAndLegacyRunsAgree ==
    rn_last # NULL =>
        LET outcome == [records |-> rn_last[1].records, calls |-> rn_last[1].calls]
            phased  == PhasedMain(rn_course_skills, rn_esco_embeddings,
                                  rn_settings, rn_scorer)
            legacy  == run(rn_course_skills, rn_esco_embeddings, rn_settings,
                           rn_scorer)
        IN  /\ outcome \in phased
            /\ outcome \in legacy
            /\ phased = legacy
            /\ Len(rn_course_skills) = 0 =>
                  /\ outcome.calls = <<>>
                  /\ ~rn_mapping_file.exists
                  /\ rn_mysql_rows = <<>>

\* The legacy run() has mapped two skills with a reranker that changed
\* the choice of a candidate, and has written them.
C28_Witness ==
    /\ rn_last # NULL
    /\ rn_last[1].entry = "legacy"
    /\ rn_settings.reranker_enabled
    /\ rn_settings.rerank_top_k = 2
    /\ rn_scorer = "first"
    /\ Len(rn_last[1].records) = 2
    /\ Len(rn_last[1].calls) = 3
    /\ rn_last[1].records[1].esco_skill_id = <<"skill", 1>>
    /\ rn_last[1].records[1].similarity_score = Some(15)
    /\ rn_mapping_file.exists

\* C30: re-running the mapping pipeline from scratch over the same
\* inputs leaves the persisted mapping output in the same end state as a
\* single run: the JSONL file holds the same records and the MySQL
\* mapping table holds the same set of rows, with no row duplicated.
C30_RerunLeavesSameEndState ==
    rn_runs = 2 =>
        /\ rn_mapping_file = rn_first[1].mapping_file
        /\ {rn_mysql_rows[i] : i \in 1..Len(rn_mysql_rows)} =
              {rn_first[1].mysql_rows[i] : i \in 1..Len(rn_first[1].mysql_rows)}
        /\ Len(rn_mysql_rows) = Len(rn_first[1].mysql_rows)

====
